---- MODULE Spec2Model ----
(***************************************************************************)
(* The resumable pipeline execution engine of the video generation backend *)
(* (apps/backend/videos): the DRAMA executor of services.py, the CHARACTER *)
(* executor of game_services.py, the admin actions that start, resume and  *)
(* cancel a job, the resume planner and the moderation retry wrapper.      *)
(*                                                                         *)
(* One job row is modelled.  Every background run works on its own         *)
(* in-memory copy of the row, loaded when its thread starts, and           *)
(* job.save() writes the whole copy back (Django saves every column when   *)
(* update_fields is not given).  Artifacts are tokens: 0 is empty, t > 0   *)
(* is "the bytes produced by run t".  Python dicts are functions over      *)
(* string keys, read with Get as dict.get reads them.                      *)
(***************************************************************************)
EXTENDS Integers, Sequences, FiniteSets, TLC

\* ------------------------------------------------------------------ bounds
MaxRuns == 2
MaxScenes == 2
MaxBudget == 5
MaxItems == 3
MaxLen == 5

Threads == 1..MaxRuns

\* --------------------------------------------------------------- constants
MAX_MODERATION_RETRIES == 5

\* ----------------------------------------------------------- status values
PENDING == "pending"
PLANNING == "planning"
COMPLETED == "completed"
FAILED == "failed"
PREPARING == "preparing"
GENERATING_S1 == "generating_s1"
PREPARING_CTA == "preparing_cta"
GENERATING_S2 == "generating_s2"
CONCATENATING == "concatenating"
GENERATING_FRAMES == "generating_frames"
GENERATING_VIDEOS == "generating_videos"
MERGING == "merging"

Status ==
  { PENDING, PLANNING, COMPLETED, FAILED, PREPARING, GENERATING_S1, PREPARING_CTA,
    GENERATING_S2, CONCATENATING, GENERATING_FRAMES, GENERATING_VIDEOS, MERGING }

DRAMA == "drama"
GAME == "game"
JobType == { DRAMA, GAME }

\* ------------------------------------------------------------ python dicts
Get(d, k, default) == IF k \in DOMAIN d THEN d[k] ELSE default

\* dict.update restricted to the keys in `keys`
Update(d, u, keys) ==
  [k \in DOMAIN d \cup (DOMAIN u \cap keys) |->
     IF k \in DOMAIN u \cap keys THEN u[k] ELSE d[k]]

NoJson == [tok |-> 0, n |-> 0, chars |-> FALSE]

RECURSIVE SeqOfSet(_)
SeqOfSet(S) ==
  IF S = {} THEN <<>>
  ELSE LET m == CHOOSE x \in S : \A y \in S : x <= y
       IN <<m>> \o SeqOfSet(S \ {m})

\* ------------------------------------------------------------ status_config
NODE_ORDER ==
  << "plan_script", "prepare_first_frame", "generate_scene1", "prepare_cta_frame",
     "generate_scene2", "concatenate_videos" >>

NODE_TO_STATUS ==
  ("plan_script" :> PLANNING) @@ ("prepare_first_frame" :> PREPARING)
  @@ ("generate_scene1" :> GENERATING_S1) @@ ("prepare_cta_frame" :> PREPARING_CTA)
  @@ ("generate_scene2" :> GENERATING_S2) @@ ("concatenate_videos" :> CONCATENATING)

IN_PROGRESS_STATUSES ==
  { PLANNING, PREPARING, GENERATING_S1, PREPARING_CTA, GENERATING_S2, CONCATENATING }

\* a faulty table: the last stage has no entry
resume_table_without_last ==
  (PENDING :> "plan_script") @@ (PLANNING :> "plan_script")
  @@ (PREPARING :> "prepare_first_frame") @@ (GENERATING_S1 :> "generate_scene1")
  @@ (PREPARING_CTA :> "prepare_cta_frame") @@ (GENERATING_S2 :> "generate_scene2")

STATUS_TO_RESUME_NODE ==
  (PENDING :> "plan_script") @@ (PLANNING :> "plan_script")
  @@ (PREPARING :> "prepare_first_frame") @@ (GENERATING_S1 :> "generate_scene1")
  @@ (PREPARING_CTA :> "prepare_cta_frame") @@ (GENERATING_S2 :> "generate_scene2")
  @@ (CONCATENATING :> "concatenate_videos")

get_resume_node(status) == Get(STATUS_TO_RESUME_NODE, status, "plan_script")

GAME_NODE_ORDER ==
  << "plan_game_scripts", "generate_game_frames", "generate_game_videos",
     "merge_game_videos" >>

\* a faulty table: the last two steps share one stage label
game_stages_sharing_a_label ==
  ("plan_game_scripts" :> PLANNING) @@ ("generate_game_frames" :> GENERATING_FRAMES)
  @@ ("generate_game_videos" :> GENERATING_VIDEOS)
  @@ ("merge_game_videos" :> GENERATING_VIDEOS)

GAME_NODE_TO_STATUS ==
  ("plan_game_scripts" :> PLANNING) @@ ("generate_game_frames" :> GENERATING_FRAMES)
  @@ ("generate_game_videos" :> GENERATING_VIDEOS) @@ ("merge_game_videos" :> MERGING)

GAME_IN_PROGRESS_STATUSES == { PLANNING, GENERATING_FRAMES, GENERATING_VIDEOS, MERGING }

GAME_STATUS_TO_RESUME_NODE ==
  (PENDING :> "plan_game_scripts") @@ (PLANNING :> "plan_game_scripts")
  @@ (GENERATING_FRAMES :> "generate_game_frames")
  @@ (GENERATING_VIDEOS :> "generate_game_videos") @@ (MERGING :> "merge_game_videos")

get_game_resume_node(status) ==
  Get(GAME_STATUS_TO_RESUME_NODE, status, "plan_game_scripts")

is_in_progress(status) ==
  status \in IN_PROGRESS_STATUSES \/ status \in GAME_IN_PROGRESS_STATUSES

IndexOf(seq, x) == CHOOSE i \in 1..Len(seq) : seq[i] = x

\* node_order[start_idx:]
Tail_from(seq, x) == SubSeq(seq, IndexOf(seq, x), Len(seq))

\* ------------------------------------------------------------------ models
\* A VideoGenerationJob row (models.py): status fields and artifact fields.
NewJob ==
  [ status |-> PENDING, failed_at_status |-> "", error_message |-> "",
    product_image_url |-> 0,
    script_json |-> NoJson, product_detail |-> 0, character_details |-> 0,
    first_frame |-> 0, scene1_last_frame |-> 0, cta_last_frame |-> 0,
    final_video |-> 0, skipped_segments |-> <<>>,
    character_description |-> 0, game_locations_used |-> 0 ]

\* A VideoSegment row; segment_index is its position - 1.
NewSegment(prompt) ==
  [ title |-> <<>>, seconds |-> 8, prompt |-> prompt, video_file |-> 0,
    status |-> "pending" ]

\* A GameFrame row.  vsrc is the scene whose frame image the stored video was
\* generated from (0: no video).
NewGameFrame(scene, prompt) ==
  [ scene_number |-> scene, prompt |-> prompt, image_file |-> 0, video_file |-> 0,
    vsrc |-> 0 ]

\* -------------------------------------------------- moderation retry wrapper
\* The prompt handed to generate_fn: quick = quick_sanitize_names applied,
\* llm = number of nested sanitize_prompt_for_veo rewrites.
BasePrompt == [ quick |-> FALSE, llm |-> 0 ]
\* a faulty first fallback: it calls the LLM rewrite as well
quick_sanitize_with_llm(p) == [ p EXCEPT !.quick = TRUE, !.llm = @ + 1 ]

quick_sanitize_names(p) == [ p EXCEPT !.quick = TRUE ]
sanitize_prompt_for_veo(p) == [ p EXCEPT !.llm = @ + 1 ]

\* One iteration of `for attempt in range(max_retries + 1)` and the ones after
\* it.  env[attempt + 1] is what generate_fn does on that call: "ok", a
\* ModerationError ("moderation") or any other exception ("other").
\* ret: the bytes (tok) or None (0); calls: prompts passed to generate_fn;
\* sanitized: the sanitizer calls made, in order.
RECURSIVE RetryLoop(_, _, _, _, _, _)
RetryLoop(env, max_retries, attempt, current_prompt, calls, tok) ==
  IF attempt > max_retries
  THEN [ ret |-> 0, calls |-> calls, raised |-> FALSE, sanitized |-> <<>> ]
  ELSE
    LET made == Append(calls, current_prompt) IN
    CASE env[attempt + 1] = "ok" ->
           [ ret |-> tok, calls |-> made, raised |-> FALSE, sanitized |-> <<>> ]
      [] env[attempt + 1] = "moderation" ->
           IF attempt < max_retries
           THEN LET next_prompt ==
                      IF attempt = 0 THEN quick_sanitize_names(current_prompt)
                      ELSE IF attempt = 1 THEN sanitize_prompt_for_veo(BasePrompt)
                      ELSE sanitize_prompt_for_veo(current_prompt)
                    called == IF attempt = 0 THEN "quick_sanitize_names"
                              ELSE "sanitize_prompt_for_veo"
                    rest == RetryLoop(env, max_retries, attempt + 1, next_prompt, made, tok)
                IN [ rest EXCEPT !.sanitized = << called >> \o @ ]
           ELSE [ ret |-> 0, calls |-> made, raised |-> FALSE, sanitized |-> <<>> ]
      [] OTHER -> [ ret |-> 0, calls |-> made, raised |-> FALSE, sanitized |-> <<>> ]

\* a faulty wrapper: it loops over range(max_retries)
retry_without_last_attempt(env, max_retries, tok) ==
  RetryLoop(env, max_retries - 1, 0, BasePrompt, <<>>, tok)

_generate_with_moderation_retry(env, max_retries, tok) ==
  RetryLoop(env, max_retries, 0, BasePrompt, <<>>, tok)

\* generate_fn behaving the same way on every call
ConstEnv(kind) == [ i \in 1..(MAX_MODERATION_RETRIES + 1) |-> kind ]

\* ------------------------------------------------------------- DRAMA nodes
\* A node call gives [raised, out]: out is the dict the node returns.
Returned(out) == [ raised |-> FALSE, out |-> out ]
Raised == [ raised |-> TRUE, out |-> [ k \in {} |-> 0 ] ]
Error(msg, status) == Returned(("error" :> msg) @@ ("status" :> status))

\* o: [ok, n, chars]: plan_script_with_ai raises, or returns a script with n
\* scenes and (chars) a non-empty character list
plan_script(state, o, tok) ==
  IF ~o.ok THEN Error("planning", "planning_failed")
  ELSE Returned(
         ("script_json" :> [ tok |-> tok, n |-> o.n, chars |-> o.chars ])
         @@ ("product_detail" :> tok)
         @@ ("character_details" :> IF o.chars THEN tok ELSE 0)
         @@ ("status" :> "script_planned"))

\* o.ok: generate_first_frame returns (else it raises inside the try)
prepare_first_frame(state, o, tok) ==
  LET script_json == Get(state, "script_json", NoJson) IN
  IF script_json.tok = 0 THEN Error("No script data available", "first_frame_preparation_failed")
  ELSE IF script_json.chars /\ script_json.n > 0 /\ ~o.ok
  THEN Error("first frame", "first_frame_preparation_failed")
  ELSE Returned(
         ("segments" :> [ i \in 1..script_json.n |-> [ prompt |-> script_json.tok ] ])
         @@ ("_first_frame_bytes" :>
               IF script_json.chars /\ script_json.n > 0 THEN tok ELSE 0)
         @@ ("current_segment_index" :> 0)
         @@ ("status" :> "first_frame_prepared"))

\* o.gen: what generate_video_from_image does on every call; o.ok: whether
\* extract_last_frame_from_bytes returns (it is outside any try)
generate_scene1(state, o, tok) ==
  LET segments == state["segments"] IN
  IF Len(segments) = 0 THEN Error("No segments available for Scene 1", "scene1_failed")
  ELSE IF Get(state, "first_frame_url", 0) = 0
  THEN Error("No first_frame_url available for Scene 1", "scene1_failed")
  ELSE LET video_bytes ==
             _generate_with_moderation_retry(ConstEnv(o.gen), MAX_MODERATION_RETRIES, tok).ret
       IN IF video_bytes = 0
          THEN Returned(("skipped_segments" :> <<1>>)
                        @@ ("error" :> "Scene 1 generation failed after all retries")
                        @@ ("status" :> "scene1_failed"))
          ELSE IF ~o.ok THEN Raised
          ELSE Returned(("_scene1_video_bytes" :> video_bytes)
                        @@ ("_scene1_last_frame_bytes" :> tok)
                        @@ ("current_segment_index" :> 1)
                        @@ ("status" :> "scene1_complete"))

\* o.ok: generate_cta_last_frame returns (else it raises inside the try)
prepare_cta_frame(state, o, tok) ==
  IF Get(state, "script_json", NoJson).tok = 0 THEN Raised
  ELSE IF Get(state, "first_frame_url", 0) = 0
  THEN Error("No first_frame_url available for CTA frame generation",
             "cta_frame_preparation_failed")
  ELSE IF Get(state, "product_image_url", 0) = 0
  THEN Returned(("_cta_last_frame_bytes" :> 0) @@ ("status" :> "cta_frame_skipped"))
  ELSE IF ~o.ok THEN Error("cta frame", "cta_frame_preparation_failed")
  ELSE Returned(("_cta_last_frame_bytes" :> tok) @@ ("status" :> "cta_frame_prepared"))

\* env: what generate_video_interpolation does on each call
scene2_with(state, env, max_retries, tok) ==
  LET segments == state["segments"] IN
  IF Len(segments) < 2
  THEN Returned(("current_segment_index" :> 2) @@ ("status" :> "scene2_skipped"))
  ELSE IF Get(state, "scene1_last_frame_url", 0) = 0 \/ Get(state, "cta_last_frame_url", 0) = 0
  THEN Error("Missing frame URLs for Scene 2 interpolation", "scene2_failed")
  ELSE LET video_bytes == _generate_with_moderation_retry(env, max_retries, tok).ret
       IN IF video_bytes = 0
          THEN Returned(("skipped_segments" :> <<2>>)
                        @@ ("error" :> "Scene 2 generation failed after all retries")
                        @@ ("status" :> "scene2_failed"))
          ELSE Returned(("_scene2_video_bytes" :> video_bytes)
                        @@ ("current_segment_index" :> 2)
                        @@ ("status" :> "scene2_complete"))

generate_scene2(state, o, tok) ==
  scene2_with(state, ConstEnv(o.gen), MAX_MODERATION_RETRIES, tok)

\* o.ok: the downloads and concatenate_segments return (else they raise)
concatenate_videos(state, o, tok) ==
  LET segment_videos == Get(state, "segment_videos", <<>>) IN
  IF Len(segment_videos) = 0
  THEN Error("All segments failed to generate. Please try a different topic.",
             "concatenation_failed")
  ELSE IF \E i \in 1..Len(segment_videos) : "video_url" \notin DOMAIN segment_videos[i]
  THEN Raised
  ELSE IF ~o.ok THEN Raised
  ELSE Returned(("_final_video_bytes" :> tok) @@ ("status" :> "complete"))


\* ---------------------------------------------------------- CHARACTER nodes
\* results.sort(key=lambda x: x["scene"]): a stable sort by scene number
RECURSIVE SortByScene(_)
SortByScene(results) ==
  IF Len(results) = 0 THEN <<>>
  ELSE LET m == CHOOSE i \in 1..Len(results) :
                  /\ \A j \in 1..Len(results) : results[i]["scene"] <= results[j]["scene"]
                  /\ \A j \in 1..(i - 1) : results[j]["scene"] # results[i]["scene"]
           rest == [ j \in 1..(Len(results) - 1) |->
                       IF j < m THEN results[j] ELSE results[j + 1] ]
       IN <<results[m]>> \o SortByScene(rest)

\* o.ok: the download, the LLM call and the JSON parse all succeed (they raise
\* otherwise); o.n: number of scripts the LLM returned, scenes 1..n
plan_game_scripts(state, o, tok) ==
  IF ~o.ok THEN Raised
  ELSE Returned(
         ("character_description" :> tok)
         @@ ("game_locations_used" :> tok)
         @@ ("scripts" :> [ tok |-> tok, n |-> o.n, chars |-> FALSE ])
         @@ ("status" :> "generating_frames"))

\* a faulty fan-out: a scene whose sub-task raises leaves no entry
frames_dropping_errors(state, o, tok) ==
  LET done == SelectSeq(o.order, LAMBDA sc : sc \in o.okset)
      results == [ i \in 1..Len(done) |->
                     ("scene" :> done[i]) @@ ("_image_bytes" :> tok)
                     @@ ("image_url" :> tok) ]
  IN Returned(("_frame_results" :> SortByScene(results))
              @@ ("status" :> "generating_videos"))

\* o.order: the submitted scenes in completion order; o.okset: the scenes
\* whose sub-task returns (the others raise inside the worker)
generate_game_frames(state, o, tok) ==
  LET results ==
        [ i \in 1..Len(o.order) |->
            IF o.order[i] \in o.okset
            THEN ("scene" :> o.order[i]) @@ ("_image_bytes" :> tok)
                 @@ ("image_url" :> tok)
            ELSE ("scene" :> o.order[i]) @@ ("error" :> "frame") ]
  IN Returned(("_frame_results" :> SortByScene(results))
              @@ ("status" :> "generating_videos"))

\* scenes for which generate_game_videos submits a sub-task
VideoSubmitted(state) ==
  { s \in 1..state["scripts"].n : s - 1 < Len(state["frame_urls"]) }

\* a faulty fan-in: the results stay in completion order
videos_in_completion_order(state, o, tok) ==
  LET frame_urls == state["frame_urls"]
      results ==
        [ i \in 1..Len(o.order) |->
            IF o.order[i] \in o.okset
            THEN ("scene" :> o.order[i]) @@ ("_video_bytes" :> tok)
                 @@ ("video_url" :> tok) @@ ("frame_url" :> frame_urls[o.order[i]])
            ELSE ("scene" :> o.order[i]) @@ ("error" :> "video") ]
  IN Returned(("_video_results" :> results) @@ ("status" :> "merging"))

generate_game_videos(state, o, tok) ==
  LET frame_urls == state["frame_urls"]
      results ==
        [ i \in 1..Len(o.order) |->
            IF o.order[i] \in o.okset
            THEN ("scene" :> o.order[i]) @@ ("_video_bytes" :> tok)
                 @@ ("video_url" :> tok) @@ ("frame_url" :> frame_urls[o.order[i]])
            ELSE ("scene" :> o.order[i]) @@ ("error" :> "video") ]
  IN Returned(("_video_results" :> SortByScene(results)) @@ ("status" :> "merging"))

\* o.ok: downloads and ffmpeg succeed (they raise otherwise); with no video
\* at all _merge_videos_with_fade raises on video_paths[0]
merge_game_videos(state, o, tok) ==
  IF Len(state["video_urls"]) = 0 \/ ~o.ok THEN Raised
  ELSE Returned(("_final_video_bytes" :> tok) @@ ("status" :> "completed"))


\* ------------------------------------------------- DRAMA executor (services)
\* keys of VideoGeneratorState (generators/state.py) that the pipeline uses;
\* graph.stream merges only these into the graph state
VideoGeneratorState ==
  { "product_image_url", "script_json", "product_detail", "character_details",
    "segments", "first_frame_image", "cta_last_frame_image", "current_segment_index",
    "segment_videos", "scene1_last_frame_image", "skipped_segments",
    "final_video_bytes", "error", "status" }

\* initial_state of generate_video_sync
initial_state(job) ==
  [ product_image_url |-> job.product_image_url,
    script_json |-> NoJson, product_detail |-> 0, character_details |-> 0,
    segments |-> <<>>, first_frame_image |-> 0, cta_last_frame_image |-> 0,
    current_segment_index |-> 0, segment_videos |-> <<>>,
    scene1_video_bytes |-> 0, scene2_video_bytes |-> 0,
    scene1_last_frame_image |-> 0, skipped_segments |-> <<>>,
    final_video_bytes |-> 0, error |-> "", status |-> "pending" ]

\* f"Segment {i+1}" for the entry at position i of the model (index i - 1)
DefaultTitle(i) == << "Segment", i >>

\* a faulty version: the rows beyond the new data are left in place
create_without_delete(segs, segments_data) ==
  [ i \in 1..(IF Len(segs) > Len(segments_data) THEN Len(segs) ELSE Len(segments_data)) |->
      IF i > Len(segments_data) THEN segs[i]
      ELSE [ title |-> Get(segments_data[i], "title", DefaultTitle(i)),
             seconds |-> Get(segments_data[i], "seconds", 8),
             prompt |-> Get(segments_data[i], "prompt", 0),
             video_file |-> IF i <= Len(segs) THEN segs[i].video_file ELSE 0,
             status |-> "pending" ] ]

\* job.segments.filter(segment_index__gte=len).delete(), then update_or_create
\* per entry with the defaults title, seconds, prompt and status: an existing
\* row keeps its video_file.  The empty prompt is 0.
_create_video_segments(segs, segments_data) ==
  [ i \in 1..Len(segments_data) |->
      [ title |-> Get(segments_data[i], "title", DefaultTitle(i)),
        seconds |-> Get(segments_data[i], "seconds", 8),
        prompt |-> Get(segments_data[i], "prompt", 0),
        video_file |-> IF i <= Len(segs) THEN segs[i].video_file ELSE 0,
        status |-> "pending" ] ]

\* segment.video_file.save(...); segment.status = COMPLETED
SaveSegmentVideo(segs, i, bytes) ==
  IF bytes # 0 /\ i <= Len(segs)
  THEN [ segs EXCEPT ![i] = [ @ EXCEPT !.video_file = bytes, !.status = "completed" ] ]
  ELSE segs

\* The in-memory job and the segment rows after _save_node_result; the job is
\* saved (whole row) at the end of every branch.
_save_node_result(job, segs, node_name, node_output) ==
  CASE node_name = "plan_script" ->
         [ job |-> [ job EXCEPT
                       !.status = PLANNING,
                       !.script_json =
                          IF Get(node_output, "script_json", NoJson).tok # 0
                          THEN node_output["script_json"] ELSE @,
                       !.product_detail =
                          IF Get(node_output, "product_detail", 0) # 0
                          THEN node_output["product_detail"] ELSE @,
                       !.character_details =
                          IF Get(node_output, "character_details", 0) # 0
                          THEN node_output["character_details"] ELSE @ ],
           segs |-> segs ]
    [] node_name = "prepare_first_frame" ->
         [ job |-> [ job EXCEPT
                       !.status = PREPARING,
                       !.first_frame =
                          IF Get(node_output, "first_frame_image", 0) # 0
                          THEN node_output["first_frame_image"] ELSE @ ],
           segs |-> _create_video_segments(segs, Get(node_output, "segments", <<>>)) ]
    [] node_name = "generate_scene1" ->
         [ job |-> [ job EXCEPT
                       !.status = GENERATING_S1,
                       !.scene1_last_frame =
                          IF Get(node_output, "scene1_last_frame_image", 0) # 0
                          THEN node_output["scene1_last_frame_image"] ELSE @ ],
           segs |-> SaveSegmentVideo(segs, 1, Get(node_output, "scene1_video_bytes", 0)) ]
    [] node_name = "prepare_cta_frame" ->
         [ job |-> [ job EXCEPT
                       !.status = PREPARING_CTA,
                       !.cta_last_frame =
                          IF Get(node_output, "cta_last_frame_image", 0) # 0
                          THEN node_output["cta_last_frame_image"] ELSE @ ],
           segs |-> segs ]
    [] node_name = "generate_scene2" ->
         [ job |-> [ job EXCEPT !.status = GENERATING_S2 ],
           segs |-> SaveSegmentVideo(segs, 2, Get(node_output, "scene2_video_bytes", 0)) ]
    [] node_name = "concatenate_videos" ->
         [ job |-> [ job EXCEPT
                       !.status = CONCATENATING,
                       !.final_video =
                          IF Get(node_output, "final_video_bytes", 0) # 0
                          THEN node_output["final_video_bytes"] ELSE @,
                       !.skipped_segments =
                          IF Len(Get(node_output, "skipped_segments", <<>>)) > 0
                          THEN node_output["skipped_segments"] ELSE @ ],
           segs |-> segs ]
    [] OTHER -> [ job |-> job, segs |-> segs ]

\* a faulty planner: it looks at the current status alone
resume_from_status(job) == get_resume_node(job.status)

\* the table local to get_resume_entry_point
resume_map ==
  (PENDING :> "plan_script") @@ (PLANNING :> "plan_script")
  @@ (PREPARING :> "prepare_first_frame") @@ (GENERATING_S1 :> "generate_scene1")
  @@ (PREPARING_CTA :> "prepare_cta_frame") @@ (GENERATING_S2 :> "generate_scene2")
  @@ (CONCATENATING :> "concatenate_videos")

get_resume_entry_point(job) ==
  LET resume_status == IF job.failed_at_status # "" THEN job.failed_at_status
                       ELSE job.status
  IN Get(resume_map, resume_status, "plan_script")

\* segment rows that have a video file, as build_resume_state loads them
ResumeSegmentVideos(segs) ==
  LET idx == SeqOfSet({ i \in 1..Len(segs) : segs[i].video_file # 0 })
  IN [ k \in 1..Len(idx) |->
         ("video_bytes" :> segs[idx[k]].video_file) @@ ("index" :> idx[k] - 1) ]

build_resume_state(job, segs) ==
  LET segment_videos == ResumeSegmentVideos(segs) IN
  [ product_image_url |-> job.product_image_url,
    script_json |-> job.script_json, product_detail |-> job.product_detail,
    character_details |-> job.character_details,
    segments |-> [ i \in 1..Len(segs) |-> [ prompt |-> segs[i].prompt ] ],
    first_frame_image |-> job.first_frame,
    cta_last_frame_image |-> job.cta_last_frame,
    current_segment_index |-> Len(segment_videos),
    segment_videos |-> segment_videos,
    scene1_video_bytes |-> IF Len(segs) >= 1 THEN segs[1].video_file ELSE 0,
    scene2_video_bytes |-> IF Len(segs) >= 2 THEN segs[2].video_file ELSE 0,
    scene1_last_frame_image |-> job.scene1_last_frame,
    skipped_segments |-> job.skipped_segments,
    final_video_bytes |-> 0, error |-> "", status |-> "resuming" ]

\* graph.stream: a node's update is merged channel by channel; segment_videos
\* and skipped_segments have the operator.add reducer
StreamMerge(state, out) ==
  [ k \in DOMAIN state |->
      IF k \in DOMAIN out /\ k \in VideoGeneratorState
      THEN IF k \in { "segment_videos", "skipped_segments" }
           THEN state[k] \o out[k] ELSE out[k]
      ELSE state[k] ]

\* the merge loop of generate_video_with_resume: every key of the result is
\* stored, segment_videos is appended
ResumeMerge(state, result) ==
  [ k \in DOMAIN state \cup DOMAIN result |->
      IF k \in DOMAIN result
      THEN IF k = "segment_videos" /\ Len(result[k]) > 0
           THEN Get(state, "segment_videos", <<>>) \o result[k] ELSE result[k]
      ELSE state[k] ]


\* ------------------------------------------ CHARACTER executor (game_services)
\* result keys for which key.startswith("_") holds
TemporaryKeys ==
  { "_frame_results", "_video_results", "_final_video_bytes", "_image_bytes",
    "_video_bytes" }

_build_game_initial_state(job) ==
  [ character_description |-> 0, game_locations_used |-> 0, scripts |-> NoJson,
    frame_urls |-> <<>>, video_urls |-> <<>>, final_video_url |-> 0,
    error |-> "", status |-> "pending" ]

\* the url of a stored file is identified by the scene number of its row
_build_game_resume_state(job, frames) ==
  [ character_description |-> job.character_description,
    game_locations_used |-> job.game_locations_used,
    scripts |-> job.script_json,
    frame_urls |-> SeqOfSet({ s \in 1..Len(frames) : frames[s].image_file # 0 }),
    video_urls |-> SeqOfSet({ s \in 1..Len(frames) : frames[s].video_file # 0 }),
    final_video_url |-> job.final_video,
    error |-> "", status |-> "resuming" ]

\* delete every row of the job, bulk_create one row per script
_create_game_frames(scripts) ==
  [ i \in 1..scripts.n |-> NewGameFrame(i, scripts.tok) ]

\* the results that carry bytes and whose GameFrame row exists, in list order
Stored(results, bytes_key, frames) ==
  SelectSeq(results, LAMBDA r : Get(r, bytes_key, 0) # 0 /\ r["scene"] <= Len(frames))

\* The in-memory job, the GameFrame rows and the state after
\* _save_and_inject_game_urls; the job is saved at the end of every branch.
_save_and_inject_game_urls(job, frames, node_name, result, state) ==
  LET merged == Update(state, result, DOMAIN result \ TemporaryKeys) IN
  CASE node_name = "plan_game_scripts" ->
         [ job |-> [ job EXCEPT
                       !.character_description =
                          IF Get(result, "character_description", 0) # 0
                          THEN result["character_description"] ELSE @,
                       !.game_locations_used =
                          IF Get(result, "game_locations_used", 0) # 0
                          THEN result["game_locations_used"] ELSE @,
                       !.script_json =
                          IF Get(result, "scripts", NoJson).n > 0
                          THEN result["scripts"] ELSE @ ],
           frames |-> _create_game_frames(Get(result, "scripts", NoJson)),
           state |-> merged ]
    [] node_name = "generate_game_frames" ->
         LET stored == Stored(Get(result, "_frame_results", <<>>), "_image_bytes", frames)
         IN [ job |-> job,
              frames |-> [ s \in 1..Len(frames) |->
                             LET hit == { i \in 1..Len(stored) : stored[i]["scene"] = s }
                             IN IF hit = {} THEN frames[s]
                                ELSE [ frames[s] EXCEPT !.image_file =
                                         stored[CHOOSE i \in hit : TRUE]["_image_bytes"] ] ],
              state |-> [ merged EXCEPT !["frame_urls"] =
                            [ i \in 1..Len(stored) |-> stored[i]["scene"] ] ] ]
    [] node_name = "generate_game_videos" ->
         LET stored == Stored(Get(result, "_video_results", <<>>), "_video_bytes", frames)
         IN [ job |-> job,
              frames |-> [ s \in 1..Len(frames) |->
                             LET hit == { i \in 1..Len(stored) : stored[i]["scene"] = s }
                             IN IF hit = {} THEN frames[s]
                                ELSE LET vr == stored[CHOOSE i \in hit : TRUE]
                                     IN [ frames[s] EXCEPT !.video_file = vr["_video_bytes"],
                                                           !.vsrc = vr["frame_url"] ] ],
              state |-> [ merged EXCEPT !["video_urls"] =
                            [ i \in 1..Len(stored) |-> stored[i]["scene"] ] ] ]
    [] node_name = "merge_game_videos" ->
         LET final_video_bytes == Get(result, "_final_video_bytes", 0) IN
         [ job |-> [ job EXCEPT !.final_video =
                       IF final_video_bytes # 0 THEN final_video_bytes ELSE @ ],
           frames |-> frames,
           state |-> IF final_video_bytes # 0
                     THEN [ merged EXCEPT !["final_video_url"] = final_video_bytes ]
                     ELSE merged ]
    [] OTHER -> [ job |-> job, frames |-> frames, state |-> merged ]

_update_game_job_status_for_node(job, node_name) ==
  IF node_name \in DOMAIN GAME_NODE_TO_STATUS
  THEN [ job EXCEPT !.status = GAME_NODE_TO_STATUS[node_name] ] ELSE job

_handle_game_node_error(job, error_message) ==
  [ job EXCEPT !.failed_at_status = job.status, !.status = FAILED,
               !.error_message = error_message ]

\* a faulty handler: it notes the message and leaves the status as it is
exception_not_recorded(job, exception) ==
  [ job EXCEPT !.error_message = exception ]

\* a faulty handler: it records the point of failure after it has set
\* the status
exception_after_status(job, exception) ==
  [ job EXCEPT !.failed_at_status = IF @ = "" THEN FAILED ELSE @,
               !.status = FAILED, !.error_message = exception ]

_handle_game_exception(job, exception) ==
  [ job EXCEPT !.failed_at_status = IF @ = "" THEN job.status ELSE @,
               !.status = FAILED, !.error_message = exception ]

\* a faulty completion: the point of failure of an earlier run stays
completed_keeping_failed_at(job) ==
  [ job EXCEPT !.status = COMPLETED ]

_mark_game_completed(job) ==
  [ job EXCEPT !.status = COMPLETED, !.failed_at_status = "" ]

get_game_resume_entry_point(job) ==
  get_game_resume_node(IF job.failed_at_status # "" THEN job.failed_at_status
                       ELSE job.status)


\* ------------------------------------------------------------------- state
VARIABLES
  job_type,  \* kind of the job: DRAMA or GAME
  db,        \* the VideoGenerationJob row in the database
  segs,      \* VideoSegment rows of the job, by segment_index
  frames,    \* GameFrame rows of the job, by scene_number
  run,       \* background threads: position, in-memory job, node state
  probe      \* a single function call under test: its inputs, then its result

vars == << job_type, db, segs, frames, run, probe >>

NoProbe == [ op |-> "none" ]

EmptyDict == [ k \in {} |-> 0 ]
NoBase == [ job |-> NewJob, segs |-> <<>>, frames |-> <<>> ]

\* pc: unused, spawned (thread created, job not loaded yet), inflight (inside
\* the call of `node`), completed, failed.  hist: the nodes invoked so far.
\* start_from: entry node of a resumed run ("" for a run from the beginning).
\* base: the rows as the resumed run found them.  trail: the status values the
\* run has saved, in order, a repeated value once.  ok: every external call
\* of the run so far succeeded.
IdleRun ==
  [ pc |-> "unused", resume |-> FALSE, start_from |-> "", node |-> "",
    job |-> NewJob, st |-> EmptyDict, hist |-> <<>>, base |-> NoBase,
    trail |-> <<>>, ok |-> TRUE ]

\* the trail after the run saved the row with each status of written in turn
RECURSIVE Saved(_, _)
Saved(trail, written) ==
  IF Len(written) = 0 THEN trail
  ELSE Saved(IF Len(trail) > 0 /\ trail[Len(trail)] = Head(written) THEN trail
             ELSE Append(trail, Head(written)),
             Tail(written))

\* r after saving the row with the statuses of written, good telling whether
\* the external calls of the step succeeded
Track(r, written, good) ==
  [ r EXCEPT !.trail = Saved(@, written), !.ok = @ /\ good ]

Alive(t) == run[t].pc \in { "spawned", "inflight" }

\* thread slots are handed out in order and never reused
FreeThread(t) == run[t].pc = "unused" /\ \A u \in 1..(t - 1) : run[u].pc # "unused"

Init ==
  /\ job_type \in JobType
  /\ \E p \in { 0, 1 } :
       /\ job_type = GAME => p = 0
       /\ db = [ NewJob EXCEPT !.product_image_url = p ]
  /\ segs = <<>>
  /\ frames = <<>>
  /\ run = [ t \in Threads |-> IdleRun ]
  /\ probe = NoProbe

\* threading.Thread(target=..., daemon=True).start()
Spawn(t, resume) == [ run EXCEPT ![t] = [ IdleRun EXCEPT !.pc = "spawned", !.resume = resume ] ]

\* ------------------------------------------------------------ admin actions
\* An action that refuses (a warning message and a redirect) changes nothing.
\* the generate view without its test of the status
generate_in_any_status ==
  /\ UNCHANGED << probe, job_type, segs, frames >>
  /\ \E t \in Threads :
       /\ FreeThread(t)
       /\ db' = [ db EXCEPT !.error_message = "" ]
       /\ run' = Spawn(t, FALSE)

generate_video_action ==
  /\ UNCHANGED << probe, job_type, segs, frames >>
  /\ IF db.status \notin { PENDING, FAILED }
     THEN UNCHANGED << db, run >>
     ELSE \E t \in Threads :
            /\ FreeThread(t)
            /\ LET job == [ db EXCEPT !.error_message = "" ]
                   entry_point == get_resume_entry_point(job)
                   should_resume == /\ job.status = FAILED
                                    /\ job.failed_at_status # ""
                                    /\ entry_point # "plan_script"
               IN /\ db' = job
                  /\ run' = Spawn(t, should_resume)

MSG_JOB_NOT_RESUMABLE == "not resumable in this status"
MSG_JOB_NEEDS_RESTART == "needs a restart from the beginning"
MSG_JOB_RESUMED == "resumed"

\* the message resume_video_action answers with; the first two are warnings
ResumeMessage(job) ==
  IF job.status # FAILED THEN MSG_JOB_NOT_RESUMABLE
  ELSE IF get_resume_entry_point(job) = "plan_script" THEN MSG_JOB_NEEDS_RESTART
  ELSE MSG_JOB_RESUMED

\* what resume_video_action does to the row and to the threads
ResumeRequest ==
  IF ResumeMessage(db) # MSG_JOB_RESUMED
  THEN UNCHANGED << db, run >>
  ELSE \E t \in Threads :
         /\ FreeThread(t)
         /\ db' = [ db EXCEPT !.error_message = "" ]
         /\ run' = Spawn(t, TRUE)

resume_video_action ==
  /\ UNCHANGED << probe, job_type, segs, frames >>
  /\ ResumeRequest

\* the cancel view without the record of the status it interrupted
cancel_without_failed_at ==
  /\ UNCHANGED << probe, job_type, segs, frames, run >>
  /\ IF ~is_in_progress(db.status)
     THEN UNCHANGED db
     ELSE db' = [ db EXCEPT !.status = FAILED, !.error_message = "cancelled" ]

cancel_video_action ==
  /\ UNCHANGED << probe, job_type, segs, frames, run >>
  /\ IF ~is_in_progress(db.status)
     THEN UNCHANGED db
     ELSE db' = [ db EXCEPT !.failed_at_status = db.status, !.status = FAILED,
                            !.error_message = "cancelled" ]

\* game_services.generate_game_video_async called directly
generate_game_video_async(resume) ==
  /\ job_type = GAME
  /\ \E t \in Threads : FreeThread(t) /\ run' = Spawn(t, resume)
  /\ UNCHANGED << probe, job_type, db, segs, frames >>


\* --------------------------------------------------------- background runs
Perms(S) ==
  { f \in [ 1..Cardinality(S) -> S ] :
      \A i, j \in 1..Cardinality(S) : i # j => f[i] # f[j] }

\* what the external services can do during one call of a node
Outcomes(node_name, state) ==
  CASE node_name = "plan_script" ->
         { [ ok |-> FALSE, n |-> 0, chars |-> FALSE ] }
         \cup [ ok : { TRUE }, n : 0..MaxScenes, chars : BOOLEAN ]
    [] node_name \in { "generate_scene1", "generate_scene2" } ->
         [ ok : BOOLEAN, gen : { "ok", "moderation", "other" } ]
    [] node_name = "plan_game_scripts" ->
         { [ ok |-> FALSE, n |-> 0 ] } \cup [ ok : { TRUE }, n : 0..MaxScenes ]
    [] node_name = "generate_game_frames" ->
         [ okset : SUBSET (1..state["scripts"].n), order : Perms(1..state["scripts"].n) ]
    [] node_name = "generate_game_videos" ->
         [ okset : SUBSET VideoSubmitted(state), order : Perms(VideoSubmitted(state)) ]
    [] OTHER -> [ ok : BOOLEAN ]

\* o is the outcome in which every external call of the node succeeds: the
\* planner returns a script with scenes (and, for a drama, characters), every
\* image and video generation returns, the merge returns
AllSucceed(node_name, state, o) ==
  CASE node_name = "plan_script" -> o.ok /\ o.n >= 1 /\ o.chars
    [] node_name \in { "generate_scene1", "generate_scene2" } -> o.ok /\ o.gen = "ok"
    [] node_name = "plan_game_scripts" -> o.ok /\ o.n >= 1
    [] node_name = "generate_game_frames" -> o.okset = 1..state["scripts"].n
    [] node_name = "generate_game_videos" -> o.okset = VideoSubmitted(state)
    [] OTHER -> o.ok

Invoke(node_name, state, o, tok) ==
  CASE node_name = "plan_script" -> plan_script(state, o, tok)
    [] node_name = "prepare_first_frame" -> prepare_first_frame(state, o, tok)
    [] node_name = "generate_scene1" -> generate_scene1(state, o, tok)
    [] node_name = "prepare_cta_frame" -> prepare_cta_frame(state, o, tok)
    [] node_name = "generate_scene2" -> generate_scene2(state, o, tok)
    [] node_name = "concatenate_videos" -> concatenate_videos(state, o, tok)
    [] node_name = "plan_game_scripts" -> plan_game_scripts(state, o, tok)
    [] node_name = "generate_game_frames" -> generate_game_frames(state, o, tok)
    [] node_name = "generate_game_videos" -> generate_game_videos(state, o, tok)
    [] node_name = "merge_game_videos" -> merge_game_videos(state, o, tok)

\* a finished run keeps only its outcome and the nodes it invoked
Finished(r, pc) ==
  [ IdleRun EXCEPT !.pc = pc, !.resume = r.resume, !.start_from = r.start_from,
                   !.hist = r.hist, !.trail = r.trail, !.ok = r.ok ]

\* a faulty loop: it steps over the node that follows the current one
NextNodeSkipping(order, node_name) ==
  IF IndexOf(order, node_name) + 1 < Len(order)
  THEN order[IndexOf(order, node_name) + 2] ELSE ""

\* the node the loop calls after node_name ("" after the last one)
NextNode(order, node_name) ==
  IF IndexOf(order, node_name) < Len(order) THEN order[IndexOf(order, node_name) + 1]
  ELSE ""

\* The thread body up to the first node call.  generate_video_async of
\* services.py: load the job, then generate_video_with_resume or
\* generate_video_sync; a game job goes through the thread body of
\* generate_game_video_async.
generate_video_async(t) ==
  /\ run[t].pc = "spawned"
  /\ job_type = DRAMA
  /\ LET entry_point == get_resume_entry_point(db) IN
     IF run[t].resume /\ entry_point # "plan_script"
     THEN \* generate_video_with_resume
          /\ db' = [ db EXCEPT !.error_message = "" ]
          /\ run' = [ run EXCEPT ![t] = [ @ EXCEPT
                        !.pc = "inflight", !.start_from = entry_point,
                        !.node = entry_point, !.hist = << entry_point >>,
                        !.trail = << db'.status >>,
                        !.job = db', !.st = build_resume_state(db, segs),
                        !.base = [ job |-> db, segs |-> segs, frames |-> frames ] ] ]
     ELSE \* generate_video_sync
          /\ db' = [ db EXCEPT !.status = PLANNING ]
          /\ run' = [ run EXCEPT ![t] = [ @ EXCEPT
                        !.pc = "inflight", !.node = "plan_script",
                        !.hist = << "plan_script" >>, !.trail = << db'.status >>,
                        !.job = db', !.st = initial_state(db) ] ]
  /\ UNCHANGED << probe, job_type, segs, frames >>

\* _run_in_thread of generate_game_video_async, up to the first node call
_run_in_thread(t) ==
  /\ run[t].pc = "spawned"
  /\ job_type = GAME
  /\ LET entry_point == get_game_resume_entry_point(db) IN
     IF run[t].resume /\ entry_point # "plan_game_scripts"
     THEN \* _generate_game_video(job, start_from=entry_point)
          /\ db' = _update_game_job_status_for_node(
                      [ db EXCEPT !.error_message = "" ], entry_point)
          /\ run' = [ run EXCEPT ![t] = [ @ EXCEPT
                        !.pc = "inflight", !.start_from = entry_point,
                        !.node = entry_point, !.hist = << entry_point >>,
                        !.trail = Saved(<< db.status >>, << db'.status >>),
                        !.job = db', !.st = _build_game_resume_state(db, frames),
                        !.base = [ job |-> db, segs |-> segs, frames |-> frames ] ] ]
     ELSE \* generate_game_video_sync
          /\ db' = _update_game_job_status_for_node(db, "plan_game_scripts")
          /\ run' = [ run EXCEPT ![t] = [ @ EXCEPT
                        !.pc = "inflight", !.node = "plan_game_scripts",
                        !.hist = << "plan_game_scripts" >>, !.trail = << db'.status >>,
                        !.job = db', !.st = _build_game_initial_state(db) ] ]
  /\ UNCHANGED << probe, job_type, segs, frames >>


\* the except block of generate_video_sync / generate_video_with_resume
HandleException(job, exception) ==
  [ job EXCEPT !.failed_at_status = IF @ = "" THEN job.status ELSE @,
               !.status = FAILED, !.error_message = exception ]

\* What the loop body of generate_video_sync / generate_video_with_resume
\* does with the value a node call gave: save the result, check for an error,
\* and on the last node mark the job completed.  outcome: failed, completed or
\* next (the loop goes on to the next node).
LoopBody(job, segrows, node_name, res) ==
  IF res.raised
  THEN [ job |-> HandleException(job, "exception"), segs |-> segrows,
         outcome |-> "failed" ]
  ELSE LET saved == _save_node_result(job, segrows, node_name, res.out) IN
       IF Get(res.out, "error", "") # ""
       THEN [ job |-> HandleException(
                        [ saved.job EXCEPT !.failed_at_status = saved.job.status,
                                           !.status = FAILED,
                                           !.error_message = res.out["error"] ],
                        res.out["error"]),
              segs |-> saved.segs, outcome |-> "failed" ]
       ELSE IF NextNode(NODE_ORDER, node_name) = ""
       THEN [ job |-> [ saved.job EXCEPT !.status = COMPLETED, !.failed_at_status = "" ],
              segs |-> saved.segs, outcome |-> "completed" ]
       ELSE [ job |-> saved.job, segs |-> saved.segs, outcome |-> "next" ]

\* One iteration of the loop of generate_video_sync (graph.stream) or of
\* generate_video_with_resume: the node in flight returns, its result is
\* saved, the error check runs, and either the next node is called or the
\* run ends.
generate_video_step(t) ==
  /\ run[t].pc = "inflight"
  /\ job_type = DRAMA
  /\ LET r == run[t] IN
     \E o \in Outcomes(r.node, r.st) :
       LET res == Invoke(r.node, r.st, o, t)
           body == LoopBody(r.job, segs, r.node, res)
           next_node == NextNode(NODE_ORDER, r.node)
           written == IF res.raised THEN << body.job.status >>
                      ELSE << NODE_TO_STATUS[r.node], body.job.status >>
           tracked == Track(r, written, AllSucceed(r.node, r.st, o))
       IN /\ db' = body.job
          /\ segs' = body.segs
          /\ run' = [ run EXCEPT ![t] =
                        IF body.outcome = "next"
                        THEN [ tracked EXCEPT
                                 !.node = next_node, !.job = body.job,
                                 !.st = IF r.start_from = ""
                                        THEN StreamMerge(r.st, res.out)
                                        ELSE ResumeMerge(r.st, res.out),
                                 !.hist = Append(@, next_node) ]
                        ELSE Finished(tracked, body.outcome) ]
  /\ UNCHANGED << probe, job_type, frames >>

\* What the loop body of _generate_game_video does with the value a node call
\* gave: save and inject, check for an error, and either mark the job
\* completed or set the status of the next node.  outcome: failed, completed
\* or next; written: the status values saved, in order.
GameLoopBody(job, framerows, node_name, res, state) ==
  IF res.raised
  THEN [ job |-> _handle_game_exception(job, "exception"), frames |-> framerows,
         state |-> state, outcome |-> "failed", written |-> << FAILED >> ]
  ELSE LET saved == _save_and_inject_game_urls(job, framerows, node_name, res.out, state)
           next_node == NextNode(GAME_NODE_ORDER, node_name)
           after == IF Get(res.out, "error", "") # ""
                    THEN _handle_game_exception(
                           _handle_game_node_error(saved.job, res.out["error"]),
                           res.out["error"])
                    ELSE IF next_node = "" THEN _mark_game_completed(saved.job)
                    ELSE _update_game_job_status_for_node(saved.job, next_node)
       IN [ job |-> after, frames |-> saved.frames, state |-> saved.state,
            outcome |-> IF Get(res.out, "error", "") # "" THEN "failed"
                        ELSE IF next_node = "" THEN "completed" ELSE "next",
            written |-> << saved.job.status, after.status >> ]

\* One iteration of the loop of _generate_game_video, from the return of the
\* node in flight to the call of the next node.
_generate_game_video(t) ==
  /\ run[t].pc = "inflight"
  /\ job_type = GAME
  /\ LET r == run[t] IN
     \E o \in Outcomes(r.node, r.st) :
       LET res == Invoke(r.node, r.st, o, t)
           body == GameLoopBody(r.job, frames, r.node, res, r.st)
           next_node == NextNode(GAME_NODE_ORDER, r.node)
           tracked == Track(r, body.written, AllSucceed(r.node, r.st, o))
       IN /\ db' = body.job
          /\ frames' = body.frames
          /\ run' = [ run EXCEPT ![t] =
                        IF body.outcome = "next"
                        THEN [ tracked EXCEPT
                                 !.node = next_node, !.job = body.job,
                                 !.st = body.state, !.hist = Append(@, next_node) ]
                        ELSE Finished(tracked, body.outcome) ]
  /\ UNCHANGED << probe, job_type, segs >>

Next ==
  \/ generate_video_action
  \/ resume_video_action
  \/ cancel_video_action
  \/ \E resume \in BOOLEAN : generate_game_video_async(resume)
  \/ \E t \in Threads : generate_video_async(t)
  \/ \E t \in Threads : _run_in_thread(t)
  \/ \E t \in Threads : generate_video_step(t)
  \/ \E t \in Threads : _generate_game_video(t)

Spec == Init /\ [][Next]_vars

\* what the thread in slot t does next
RunThread(t) ==
  \/ generate_video_async(t)
  \/ _run_in_thread(t)
  \/ generate_video_step(t)
  \/ _generate_game_video(t)

NoneAlive == \A t \in Threads : ~Alive(t)

\* The admin starts a run only when none is under way (the buttons of the
\* job page are pressed one run after the other) and may cancel at any time.
NextLive ==
  \/ NoneAlive /\ generate_video_action
  \/ NoneAlive /\ resume_video_action
  \/ cancel_video_action
  \/ NoneAlive /\ \E resume \in BOOLEAN : generate_game_video_async(resume)
  \/ \E t \in Threads : RunThread(t)

\* Every thread that was started is scheduled, and every external call it
\* waits for returns or raises.
SpecLive == Init /\ [][NextLive]_vars /\ \A t \in Threads : WF_vars(RunThread(t))


\* ------------------------------------------- the resume planner, on its own
\* the values a status column can hold: the Status choices, or anything else
StatusValues == Status \cup { "unknown" }

InitPlanner ==
  /\ job_type \in JobType
  /\ \E s \in StatusValues, f \in StatusValues \cup { "" } :
       db = [ NewJob EXCEPT !.status = s, !.failed_at_status = f ]
  /\ segs = <<>>
  /\ frames = <<>>
  /\ run = [ t \in Threads |-> IdleRun ]
  /\ probe = NoProbe

CallGetResumeEntryPoint ==
  /\ probe = NoProbe
  /\ job_type = DRAMA
  /\ probe' = [ op |-> "get_resume_entry_point", result |-> get_resume_entry_point(db) ]
  /\ UNCHANGED << job_type, db, segs, frames, run >>

CallGetGameResumeEntryPoint ==
  /\ probe = NoProbe
  /\ job_type = GAME
  /\ probe' = [ op |-> "get_game_resume_entry_point",
                result |-> get_game_resume_entry_point(db) ]
  /\ UNCHANGED << job_type, db, segs, frames, run >>

NextPlanner == CallGetResumeEntryPoint \/ CallGetGameResumeEntryPoint

SpecPlanner == InitPlanner /\ [][NextPlanner]_vars

\* ------------------------------- the moderation retry wrapper, on its own
GenOutcomes == { "ok", "moderation", "other" }

\* the in-memory job and the segment rows when generate_scene2 is called
JobAtScene2 ==
  [ NewJob EXCEPT !.status = PREPARING_CTA,
                  !.script_json = [ tok |-> 1, n |-> MaxScenes, chars |-> TRUE ],
                  !.product_detail = 1, !.character_details = 1, !.first_frame = 1,
                  !.scene1_last_frame = 1, !.cta_last_frame = 1 ]

SegsAtScene2(nsegs) ==
  [ i \in 1..nsegs |->
      IF i = 1 THEN [ prompt |-> 1, video_file |-> 1, status |-> "completed" ]
      ELSE NewSegment(1) ]

\* the graph state when generate_scene2 is called; urls: the two frame urls
\* that generate_scene2 reads are present
StateAtScene2(nsegs, urls) ==
  [ initial_state(JobAtScene2) EXCEPT
      !.segments = [ i \in 1..nsegs |-> [ prompt |-> 1 ] ],
      !.script_json = JobAtScene2.script_json ]
  @@ (IF urls THEN ("scene1_last_frame_url" :> 1) @@ ("cta_last_frame_url" :> 1)
      ELSE EmptyDict)

InitRetry ==
  /\ job_type = DRAMA
  /\ db = JobAtScene2
  /\ segs = <<>>
  /\ frames = <<>>
  /\ run = [ t \in Threads |-> IdleRun ]
  /\ \E env \in [ 1..(MaxBudget + 1) -> GenOutcomes ], max_retries \in 1..MaxBudget,
        nsegs \in 0..MaxScenes, urls \in BOOLEAN :
       probe = [ op |-> "input", env |-> env, max_retries |-> max_retries,
                 nsegs |-> nsegs, urls |-> urls ]

CallGenerateWithModerationRetry ==
  /\ probe.op = "input"
  /\ probe' = [ op |-> "_generate_with_moderation_retry", env |-> probe.env,
                max_retries |-> probe.max_retries,
                res |-> _generate_with_moderation_retry(probe.env, probe.max_retries, 1) ]
  /\ UNCHANGED << job_type, db, segs, frames, run >>

\* generate_scene2 called by the executor loop, which then saves and checks
\* the result
CallGenerateScene2 ==
  /\ probe.op = "input"
  /\ LET res == scene2_with(StateAtScene2(probe.nsegs, probe.urls), probe.env,
                            probe.max_retries, 1)
         body == LoopBody(JobAtScene2, SegsAtScene2(probe.nsegs), "generate_scene2", res)
     IN /\ probe' = [ op |-> "generate_scene2", env |-> probe.env,
                      max_retries |-> probe.max_retries, nsegs |-> probe.nsegs,
                      urls |-> probe.urls, out |-> res.out, outcome |-> body.outcome ]
        /\ db' = body.job
        /\ segs' = body.segs
  /\ UNCHANGED << job_type, frames, run >>

NextRetry == CallGenerateWithModerationRetry \/ CallGenerateScene2

SpecRetry == InitRetry /\ [][NextRetry]_vars


\* --------------------- a job that an earlier run left failed at the merge
\* The rows after a run of the CHARACTER pipeline in which planning gave n
\* scenes, every frame and every video was generated and merge_game_videos
\* raised; tok marks what that run produced.
FailedAtMerge(n, tok) ==
  LET all == [ okset |-> 1..n, order |-> [ i \in 1..n |-> i ] ]
      s0 == _build_game_initial_state(NewJob)
      j1 == _update_game_job_status_for_node(NewJob, "plan_game_scripts")
      r1 == plan_game_scripts(s0, [ ok |-> TRUE, n |-> n ], tok).out
      v1 == _save_and_inject_game_urls(j1, <<>>, "plan_game_scripts", r1, s0)
      j2 == _update_game_job_status_for_node(v1.job, "generate_game_frames")
      r2 == generate_game_frames(v1.state, all, tok).out
      v2 == _save_and_inject_game_urls(j2, v1.frames, "generate_game_frames", r2, v1.state)
      j3 == _update_game_job_status_for_node(v2.job, "generate_game_videos")
      r3 == generate_game_videos(v2.state, all, tok).out
      v3 == _save_and_inject_game_urls(j3, v2.frames, "generate_game_videos", r3, v2.state)
      j4 == _update_game_job_status_for_node(v3.job, "merge_game_videos")
  IN [ job |-> _handle_game_exception(j4, "exception"), frames |-> v3.frames ]

InitResume ==
  /\ job_type = GAME
  /\ \E n \in 1..MaxScenes :
       /\ db = FailedAtMerge(n, MaxRuns + 1).job
       /\ frames = FailedAtMerge(n, MaxRuns + 1).frames
  /\ segs = <<>>
  /\ run = [ t \in Threads |-> IdleRun ]
  /\ probe = NoProbe

NextResume ==
  \/ \E resume \in BOOLEAN : generate_game_video_async(resume)
  \/ \E t \in Threads : _run_in_thread(t)
  \/ \E t \in Threads : _generate_game_video(t)

SpecResume == InitResume /\ [][NextResume]_vars


\* ---------------------------------------- _create_video_segments, on its own
\* the entries of segments_data: dicts with any of the keys title, seconds,
\* prompt
SegmentEntries ==
  LET full == [ title |-> << "Scene" >>, seconds |-> 4, prompt |-> 1 ]
  IN { [ k \in K |-> full[k] ] : K \in SUBSET DOMAIN full }

SeqsUpTo(S, n) == UNION { [ 1..k -> S ] : k \in 0..n }

\* A job with up to MaxScenes segment rows left by an earlier planning, some
\* with a video, and the segments_data of a new planning.
InitSegments ==
  /\ job_type = DRAMA
  /\ db = NewJob
  /\ frames = <<>>
  /\ run = [ t \in Threads |-> IdleRun ]
  /\ \E vf \in SeqsUpTo({ 0, 2 }, MaxScenes) :
       segs = [ i \in 1..Len(vf) |->
                  [ title |-> << "Old" >>, seconds |-> 8, prompt |-> 2, video_file |-> vf[i],
                    status |-> IF vf[i] # 0 THEN "completed" ELSE "pending" ] ]
  /\ \E data \in SeqsUpTo(SegmentEntries, MaxScenes) :
       probe = [ op |-> "input", data |-> data, calls |-> 0 ]

\* _create_video_segments(job, data), a first and a second time
CallCreateVideoSegments ==
  /\ probe.calls < 2
  /\ segs' = _create_video_segments(segs, probe.data)
  /\ probe' = [ op |-> "_create_video_segments", data |-> probe.data,
                calls |-> probe.calls + 1,
                before |-> IF probe.op = "input" THEN segs ELSE probe.before,
                first |-> IF probe.op = "input" THEN segs' ELSE probe.first ]
  /\ UNCHANGED << job_type, db, frames, run >>

SpecSegments == InitSegments /\ [][CallCreateVideoSegments]_vars


\* ------------------------------------------------ moderation classification
\* A text is a sequence of characters.  constants.MODERATION_KEYWORDS:
MODERATION_KEYWORDS ==
  << << "m", "o", "d", "e", "r", "a", "t", "i", "o", "n" >>,
     << "b", "l", "o", "c", "k", "e", "d" >>,
     << "s", "a", "f", "e", "t", "y" >>,
     << "s", "e", "n", "s", "i", "t", "i", "v", "e" >>,
     << "c", "o", "n", "t", "e", "n", "t", " ", "f", "i", "l", "t", "e", "r" >>,
     << "n", "s", "f", "w" >>,
     << "p", "o", "l", "i", "c", "y" >> >>

\* the characters the texts under test are made of
Alphabet == { "n", "s", "f", "w", "N", "S", "x" }

\* the upper-case letters, and the lower-case letter of each
UpperCase ==
  { "A", "B", "C", "D", "E", "F", "G", "H", "I", "J", "K", "L", "M",
    "N", "O", "P", "Q", "R", "S", "T", "U", "V", "W", "X", "Y", "Z" }

LowerOf ==
  [ c \in UpperCase |->
      CASE c = "A" -> "a" [] c = "B" -> "b" [] c = "C" -> "c" [] c = "D" -> "d"
        [] c = "E" -> "e" [] c = "F" -> "f" [] c = "G" -> "g" [] c = "H" -> "h"
        [] c = "I" -> "i" [] c = "J" -> "j" [] c = "K" -> "k" [] c = "L" -> "l"
        [] c = "M" -> "m" [] c = "N" -> "n" [] c = "O" -> "o" [] c = "P" -> "p"
        [] c = "Q" -> "q" [] c = "R" -> "r" [] c = "S" -> "s" [] c = "T" -> "t"
        [] c = "U" -> "u" [] c = "V" -> "v" [] c = "W" -> "w" [] c = "X" -> "x"
        [] c = "Y" -> "y" [] c = "Z" -> "z" ]

\* str.lower(), character by character
lower(text) ==
  [ i \in 1..Len(text) |-> IF text[i] \in UpperCase THEN LowerOf[text[i]] ELSE text[i] ]

\* keyword in text
In(keyword, text) ==
  \E i \in 1..(Len(text) - Len(keyword) + 1) :
    SubSeq(text, i, i + Len(keyword) - 1) = keyword

\* a faulty version: the text is compared as it is
check_without_lower(exception) ==
  IF \E k \in DOMAIN MODERATION_KEYWORDS : In(MODERATION_KEYWORDS[k], exception.text)
  THEN [ type |-> "ModerationError", text |-> exception.text ]
  ELSE exception

\* fal_client._check_moderation_error: the exception it raises
_check_moderation_error(exception) ==
  LET error_msg == lower(exception.text) IN
  IF \E k \in DOMAIN MODERATION_KEYWORDS : In(MODERATION_KEYWORDS[k], error_msg)
  THEN [ type |-> "ModerationError", text |-> exception.text ]
  ELSE exception

\* an exception of the provider call with any text of up to MaxLen characters
InitModeration ==
  /\ job_type = DRAMA
  /\ db = NewJob
  /\ segs = <<>>
  /\ frames = <<>>
  /\ run = [ t \in Threads |-> IdleRun ]
  /\ \E text \in SeqsUpTo(Alphabet, MaxLen), type \in { "ValueError", "FalClientError" } :
       probe = [ op |-> "input", exception |-> [ type |-> type, text |-> text ] ]

\* the except block of generate_video_from_image / generate_video_interpolation
CallCheckModerationError ==
  /\ probe.op = "input"
  /\ probe' = [ op |-> "_check_moderation_error", exception |-> probe.exception,
                raised |-> _check_moderation_error(probe.exception) ]
  /\ UNCHANGED << job_type, db, segs, frames, run >>

SpecModeration == InitModeration /\ [][CallCheckModerationError]_vars


\* ------------------------------------------------------ progress percentages
TOTAL_STEPS == 7
GAME_TOTAL_STEPS == 5

STATUS_ORDER ==
  (PENDING :> 0) @@ (PLANNING :> 1) @@ (PREPARING :> 2) @@ (GENERATING_S1 :> 3)
  @@ (PREPARING_CTA :> 4) @@ (GENERATING_S2 :> 5) @@ (CONCATENATING :> 6)
  @@ (COMPLETED :> 7) @@ (FAILED :> -1)

GAME_STATUS_ORDER ==
  (PENDING :> 0) @@ (PLANNING :> 1) @@ (GENERATING_FRAMES :> 2)
  @@ (GENERATING_VIDEOS :> 3) @@ (MERGING :> 4) @@ (COMPLETED :> 5) @@ (FAILED :> -1)

\* a faulty table: the percentage of a step out of one step too many
percentages_of_one_more ==
  [ status \in DOMAIN STATUS_ORDER |->
      IF STATUS_ORDER[status] >= 0
      THEN (STATUS_ORDER[status] * 100) \div (TOTAL_STEPS + 1) ELSE 0 ]

\* int((order / TOTAL_STEPS) * 100) for the orders >= 0, then FAILED: 0.  The
\* quotient is a float; for these orders and totals the truncated product is
\* the integer quotient of order * 100 by the total.
PROGRESS_PERCENTAGES ==
  [ status \in DOMAIN STATUS_ORDER |->
      IF STATUS_ORDER[status] >= 0
      THEN (STATUS_ORDER[status] * 100) \div TOTAL_STEPS ELSE 0 ]

GAME_PROGRESS_PERCENTAGES ==
  [ status \in DOMAIN GAME_STATUS_ORDER |->
      IF GAME_STATUS_ORDER[status] >= 0
      THEN (GAME_STATUS_ORDER[status] * 100) \div GAME_TOTAL_STEPS ELSE 0 ]

get_progress_percent(status) == Get(PROGRESS_PERCENTAGES, status, 0)

get_game_progress_percent(status) == Get(GAME_PROGRESS_PERCENTAGES, status, 0)

\* VideoGenerationJobAdmin._render_progress_bar: the percentage shown for the
\* status of a job of either kind
_render_progress_bar ==
  /\ probe = NoProbe
  /\ probe' = [ op |-> "_render_progress_bar",
                progress |-> IF job_type = GAME THEN get_game_progress_percent(db.status)
                             ELSE get_progress_percent(db.status) ]
  /\ UNCHANGED << job_type, db, segs, frames, run >>

SpecProgress == InitPlanner /\ [][_render_progress_bar]_vars


\* ------------------------------------------- the resume button, on its own
\* A job of either kind in any status, with any stage of its kind (or none)
\* recorded as the point of failure, holding the artifacts of the stages
\* before that point.  A pending job has never failed; a failed one has a
\* point of failure.
FailedRow(kind, st, fa, p) ==
  [ NewJob EXCEPT
      !.status = st,
      !.failed_at_status = fa,
      !.error_message = IF st = FAILED THEN "exception" ELSE "",
      !.product_image_url = IF kind = DRAMA THEN p ELSE 0,
      !.script_json = IF fa \in { "", PLANNING } THEN NoJson
                      ELSE [ tok |-> 1, n |-> MaxScenes, chars |-> TRUE ],
      !.first_frame = IF kind = DRAMA /\ fa \notin { "", PLANNING, PREPARING }
                      THEN 1 ELSE 0 ]

InitResumeRequest ==
  /\ job_type \in JobType
  /\ LET stages == IF job_type = DRAMA THEN IN_PROGRESS_STATUSES
                   ELSE GAME_IN_PROGRESS_STATUSES
     IN \E st \in { PENDING, FAILED, COMPLETED } \cup stages,
           fa \in { "" } \cup stages, p \in { 0, 1 } :
          /\ st = PENDING => fa = ""
          /\ st = FAILED => fa # ""
          /\ job_type = GAME => p = 0
          /\ db = FailedRow(job_type, st, fa, p)
  /\ segs = <<>>
  /\ frames = <<>>
  /\ run = [ t \in Threads |-> IdleRun ]
  /\ probe = NoProbe

\* resume_video_action, keeping the row it was asked about and its answer
CallResumeVideoAction ==
  /\ ResumeRequest
  /\ probe' = [ op |-> "resume_video_action", job |-> db,
                message |-> ResumeMessage(db), started |-> run' # run ]
  /\ UNCHANGED << job_type, segs, frames >>

NextResumeRequest ==
  \/ CallResumeVideoAction
  \/ \E t \in Threads : generate_video_async(t)
  \/ \E t \in Threads : generate_video_step(t)

SpecResumeRequest == InitResumeRequest /\ [][NextResumeRequest]_vars


\* ----------------------------------- the two fan-out steps, on their own
\* The in-memory job, the GameFrame rows and the state of a run that has
\* planned n scenes and is about to call generate_game_frames.
AfterPlan(n, tok) ==
  LET s0 == _build_game_initial_state(NewJob)
      res == plan_game_scripts(s0, [ ok |-> TRUE, n |-> n ], tok)
  IN GameLoopBody(_update_game_job_status_for_node(NewJob, "plan_game_scripts"),
                  <<>>, "plan_game_scripts", res, s0)

\* what the sub-tasks of a fan-out over the scenes of S can do
FanOutcomes(S) == [ okset : SUBSET S, order : Perms(S) ]

InitFanOut ==
  /\ job_type = GAME
  /\ segs = <<>>
  /\ run = [ t \in Threads |-> IdleRun ]
  /\ \E n \in 1..MaxItems :
       /\ db = AfterPlan(n, 1).job
       /\ frames = AfterPlan(n, 1).frames
       /\ \E o \in FanOutcomes(1..n) :
            probe = [ op |-> "input", n |-> n, state |-> AfterPlan(n, 1).state, o |-> o ]

\* generate_game_frames called by the loop, which saves and checks the result
CallGenerateGameFrames ==
  /\ probe.op = "input"
  /\ LET res == generate_game_frames(probe.state, probe.o, 1)
         body == GameLoopBody(db, frames, "generate_game_frames", res, probe.state)
     IN /\ db' = body.job
        /\ frames' = body.frames
        /\ probe' = [ op |-> "generate_game_frames", n |-> probe.n, o |-> probe.o,
                      raised |-> res.raised, out |-> res.out, state |-> body.state,
                      outcome |-> body.outcome ]
  /\ UNCHANGED << job_type, segs, run >>

\* generate_game_videos called next by the loop
CallGenerateGameVideos ==
  /\ probe.op = "generate_game_frames"
  /\ probe.outcome = "next"
  /\ \E o \in FanOutcomes(VideoSubmitted(probe.state)) :
       LET res == generate_game_videos(probe.state, o, 1)
           body == GameLoopBody(db, frames, "generate_game_videos", res, probe.state)
       IN /\ db' = body.job
          /\ frames' = body.frames
          /\ probe' = [ op |-> "generate_game_videos", n |-> probe.n, o |-> o,
                        raised |-> res.raised, out |-> res.out, state |-> body.state,
                        outcome |-> body.outcome ]
  /\ UNCHANGED << job_type, segs, run >>

NextFanOut == CallGenerateGameFrames \/ CallGenerateGameVideos

SpecFanOut == InitFanOut /\ [][NextFanOut]_vars


\* ------------------------------------------------- rework (rework_services)
\* A rework function gives [job, segrows, raised, calls]: the rows it leaves,
\* whether it raised, and the number of external calls it made.  o.ok: the
\* external generation (for the final video: the downloads and the
\* concatenation) returns; o.extract: extract_last_frame_from_bytes returns.
ReworkOutcomes == [ ok : BOOLEAN, extract : BOOLEAN ]

\* raise ValueError(...) before anything is called or saved
ValueError(job, segrows) == [ job |-> job, segs |-> segrows, raised |-> TRUE, calls |-> 0 ]

regenerate_first_frame(job, segrows, o, tok) ==
  IF job.script_json.tok = 0 THEN ValueError(job, segrows)
  ELSE IF job.script_json.n = 0 THEN ValueError(job, segrows)
  ELSE IF ~o.ok THEN [ job |-> job, segs |-> segrows, raised |-> TRUE, calls |-> 1 ]
  ELSE [ job |-> [ job EXCEPT !.first_frame = tok ], segs |-> segrows,
         raised |-> FALSE, calls |-> 1 ]

regenerate_scene1(job, segrows, o, tok) ==
  IF job.first_frame = 0 THEN ValueError(job, segrows)
  ELSE IF Len(segrows) < 1 THEN ValueError(job, segrows)
  ELSE IF segrows[1].prompt = 0 THEN ValueError(job, segrows)
  ELSE IF ~o.ok \/ ~o.extract
  THEN [ job |-> job, segs |-> segrows, raised |-> TRUE, calls |-> 1 ]
  ELSE [ job |-> [ job EXCEPT !.scene1_last_frame = tok ],
         segs |-> [ segrows EXCEPT ![1] = [ @ EXCEPT !.video_file = tok,
                                                  !.status = "completed" ] ],
         raised |-> FALSE, calls |-> 1 ]

regenerate_cta_last_frame(job, segrows, o, tok) ==
  IF job.first_frame = 0 THEN ValueError(job, segrows)
  ELSE IF job.product_image_url = 0 THEN ValueError(job, segrows)
  ELSE IF ~o.ok THEN [ job |-> job, segs |-> segrows, raised |-> TRUE, calls |-> 1 ]
  ELSE [ job |-> [ job EXCEPT !.cta_last_frame = tok ], segs |-> segrows,
         raised |-> FALSE, calls |-> 1 ]

\* a faulty rework: it does not look at cta_last_frame
scene2_without_cta_check(job, segrows, o, tok) ==
  IF job.scene1_last_frame = 0 THEN ValueError(job, segrows)
  ELSE IF Len(segrows) < 2 THEN ValueError(job, segrows)
  ELSE IF segrows[2].prompt = 0 THEN ValueError(job, segrows)
  ELSE IF ~o.ok THEN [ job |-> job, segs |-> segrows, raised |-> TRUE, calls |-> 1 ]
  ELSE [ job |-> job,
         segs |-> [ segrows EXCEPT ![2] = [ @ EXCEPT !.video_file = tok,
                                                  !.status = "completed" ] ],
         raised |-> FALSE, calls |-> 1 ]

regenerate_scene2(job, segrows, o, tok) ==
  IF job.scene1_last_frame = 0 THEN ValueError(job, segrows)
  ELSE IF job.cta_last_frame = 0 THEN ValueError(job, segrows)
  ELSE IF Len(segrows) < 2 THEN ValueError(job, segrows)
  ELSE IF segrows[2].prompt = 0 THEN ValueError(job, segrows)
  ELSE IF ~o.ok THEN [ job |-> job, segs |-> segrows, raised |-> TRUE, calls |-> 1 ]
  ELSE [ job |-> job,
         segs |-> [ segrows EXCEPT ![2] = [ @ EXCEPT !.video_file = tok,
                                                  !.status = "completed" ] ],
         raised |-> FALSE, calls |-> 1 ]

regenerate_final_video(job, segrows, o, tok) ==
  IF \A i \in 1..Len(segrows) : segrows[i].video_file = 0 THEN ValueError(job, segrows)
  ELSE IF ~o.ok THEN [ job |-> job, segs |-> segrows, raised |-> TRUE, calls |-> 1 ]
  ELSE [ job |-> [ job EXCEPT !.final_video = tok ], segs |-> segrows,
         raised |-> FALSE, calls |-> 1 ]

ReworkOps ==
  { "regenerate_first_frame", "regenerate_scene1", "regenerate_cta_last_frame",
    "regenerate_scene2", "regenerate_final_video" }

\* rework_fn(job)
CallRework(rework_fn, job, segrows, o, tok) ==
  CASE rework_fn = "regenerate_first_frame" -> regenerate_first_frame(job, segrows, o, tok)
    [] rework_fn = "regenerate_scene1" -> regenerate_scene1(job, segrows, o, tok)
    [] rework_fn = "regenerate_cta_last_frame" ->
         regenerate_cta_last_frame(job, segrows, o, tok)
    [] rework_fn = "regenerate_scene2" -> regenerate_scene2(job, segrows, o, tok)
    [] rework_fn = "regenerate_final_video" -> regenerate_final_video(job, segrows, o, tok)

\* the segment row (by position) that a rework function loads and saves
SegmentSaved(rework_fn) ==
  CASE rework_fn = "regenerate_scene1" -> { 1 }
    [] rework_fn = "regenerate_scene2" -> { 2 }
    [] OTHER -> {}

\* the rework functions that end with job.save() (regenerate_scene2 saves
\* its segment only)
SavesJob(rework_fn) == rework_fn # "regenerate_scene2"

\* the admin request did not reach rework_fn
Refused(rework_fn) ==
  /\ probe' = [ op |-> rework_fn, called |-> FALSE, raised |-> FALSE, calls |-> 0,
                before |-> [ job |-> db, segs |-> segs ] ]
  /\ UNCHANGED << db, segs, run >>

\* The admin request ran rework_fn on the job it has just loaded.  A missing
\* input raises at once; otherwise the request waits for the external call.
Reworked(rework_fn) ==
  IF CallRework(rework_fn, db, segs, [ ok |-> TRUE, extract |-> TRUE ], 2).calls = 0
  THEN /\ probe' = [ op |-> rework_fn, called |-> TRUE, raised |-> TRUE, calls |-> 0,
                     before |-> [ job |-> db, segs |-> segs ] ]
       /\ UNCHANGED << db, segs, run >>
  ELSE \E t \in Threads :
         /\ run[t].pc = "unused"
         /\ \A u \in 1..(t - 1) : run[u].pc # "unused"
         /\ run' = [ run EXCEPT ![t] =
                       [ IdleRun EXCEPT !.pc = "rework", !.node = rework_fn, !.job = db,
                                        !.base = [ job |-> db, segs |-> segs,
                                                   frames |-> <<>> ] ] ]
         /\ UNCHANGED << db, segs, probe >>

\* VideoGenerationJobAdmin._execute_rework_action, called by the five
\* regenerate_*_action views, up to the external call of rework_fn
_execute_rework_action(rework_fn) ==
  /\ IF db.status # COMPLETED THEN Refused(rework_fn) ELSE Reworked(rework_fn)
  /\ UNCHANGED << job_type, frames >>

\* The external call of the request in slot t returns or raises, and the
\* function saves what it holds in memory: its segment row, then the whole
\* job row (job.save() names no update_fields).  An exception saves nothing
\* and ends in an error message.
rework_returns(t) ==
  /\ run[t].pc = "rework"
  /\ \E o \in ReworkOutcomes :
       LET rework_fn == run[t].node
           res == CallRework(rework_fn, run[t].job, run[t].base.segs, o, 2)
       IN /\ db' = IF ~res.raised /\ SavesJob(rework_fn) THEN res.job ELSE db
          /\ segs' = IF res.raised THEN segs
                     ELSE [ i \in 1..Len(segs) |->
                              IF i \in SegmentSaved(rework_fn) /\ i <= Len(res.segs)
                              THEN res.segs[i] ELSE segs[i] ]
          /\ probe' = [ op |-> rework_fn, called |-> TRUE, raised |-> res.raised,
                        calls |-> res.calls, before |-> [ job |-> db, segs |-> segs ] ]
  /\ run' = [ run EXCEPT ![t] = [ IdleRun EXCEPT !.pc = "done" ] ]
  /\ UNCHANGED << job_type, frames >>

\* A drama job, not started, in progress, completed or failed, with any
\* combination of stored artifacts: no
\* script, a script without scenes or a full script; each frame and the final
\* video present or not; up to MaxScenes segments, each with or without a
\* prompt and a video.
InitRework ==
  /\ job_type = DRAMA
  /\ frames = <<>>
  /\ run = [ t \in Threads |-> IdleRun ]
  /\ probe = NoProbe
  /\ \E st \in { PENDING, CONCATENATING, COMPLETED, FAILED },
        sn \in { -1 } \cup { 0, MaxScenes },
        a \in [ { "product_image_url", "first_frame", "scene1_last_frame",
                  "cta_last_frame", "final_video" } -> { 0, 1 } ] :
       db = [ NewJob EXCEPT
                !.status = st,
                !.failed_at_status = IF st = FAILED THEN CONCATENATING ELSE "",
                !.error_message = IF st = FAILED THEN "exception" ELSE "",
                !.script_json = IF sn < 0 THEN NoJson
                                ELSE [ tok |-> 1, n |-> sn, chars |-> TRUE ],
                !.product_image_url = a["product_image_url"],
                !.first_frame = a["first_frame"],
                !.scene1_last_frame = a["scene1_last_frame"],
                !.cta_last_frame = a["cta_last_frame"],
                !.final_video = a["final_video"] ]
  /\ \E n \in 0..MaxScenes :
       \E pr \in [ 1..n -> { 0, 1 } ], vf \in [ 1..n -> { 0, 1 } ] :
         segs = [ i \in 1..n |->
                    [ prompt |-> pr[i], video_file |-> vf[i],
                      status |-> IF vf[i] # 0 THEN "completed" ELSE "pending" ] ]

NextRework ==
  \/ \E rework_fn \in ReworkOps : _execute_rework_action(rework_fn)
  \/ \E t \in Threads : rework_returns(t)

SpecRework == InitRework /\ [][NextRework]_vars


\* ------------------------------------------ the admin views, on their own
\* A job of either kind in any status of its kind.  A failed job has a point
\* of failure, the others have none.  A drama job holds any combination of
\* stored artifacts and up to MaxScenes segments, each with or without a
\* video; a game job holds its script at most.
InitAdminViews ==
  /\ job_type \in JobType
  /\ frames = <<>>
  /\ run = [ t \in Threads |-> IdleRun ]
  /\ probe = NoProbe
  /\ LET stages == IF job_type = DRAMA THEN IN_PROGRESS_STATUSES
                   ELSE GAME_IN_PROGRESS_STATUSES
     IN \E st \in { PENDING, FAILED, COMPLETED } \cup stages,
           fa \in { "", PENDING } \cup stages,
           sn \in { -1, 0, MaxScenes },
           a \in [ { "product_image_url", "first_frame", "scene1_last_frame",
                     "cta_last_frame", "final_video" } -> { 0, 1 } ],
           n \in 0..MaxScenes :
          /\ (st = FAILED) = (fa # "")
          /\ job_type = GAME => n = 0 /\ \A f \in DOMAIN a : a[f] = 0
          /\ db = [ NewJob EXCEPT
                      !.status = st,
                      !.failed_at_status = fa,
                      !.error_message = IF st = FAILED THEN "exception" ELSE "",
                      !.script_json = IF sn < 0 THEN NoJson
                                      ELSE [ tok |-> 1, n |-> sn, chars |-> TRUE ],
                      !.product_image_url = a["product_image_url"],
                      !.first_frame = a["first_frame"],
                      !.scene1_last_frame = a["scene1_last_frame"],
                      !.cta_last_frame = a["cta_last_frame"],
                      !.final_video = a["final_video"] ]
          /\ \E vf \in [ 1..n -> { 0, 1 } ] :
               segs = [ i \in 1..n |->
                          [ prompt |-> 1, video_file |-> vf[i],
                            status |-> IF vf[i] # 0 THEN "completed" ELSE "pending" ] ]

\* the rework functions whose buttons the detail page shows
_get_rework_action_names(job, segrows) ==
  (IF job.script_json.tok # 0 THEN { "regenerate_first_frame" } ELSE {})
  \cup (IF job.first_frame # 0 THEN { "regenerate_scene1" } ELSE {})
  \cup (IF job.scene1_last_frame # 0 /\ job.product_image_url # 0
        THEN { "regenerate_cta_last_frame" } ELSE {})
  \cup (IF job.scene1_last_frame # 0 /\ job.cta_last_frame # 0
        THEN { "regenerate_scene2" } ELSE {})
  \cup (IF \E i \in 1..Len(segrows) : segrows[i].video_file # 0
        THEN { "regenerate_final_video" } ELSE {})

\* the buttons the detail page shows for the job
_get_allowed_action_names(job, segrows) ==
  IF job.status = PENDING THEN { "generate_video_action" }
  ELSE IF job.status = FAILED
  THEN { "generate_video_action" }
       \cup (IF job.failed_at_status \notin { "", PENDING, PLANNING }
             THEN { "resume_video_action" } ELSE {})
  ELSE IF job.status = COMPLETED THEN _get_rework_action_names(job, segrows)
  ELSE IF is_in_progress(job.status) THEN { "cancel_video_action" }
  ELSE {}

\* the detail-page buttons, pressed in any state
SpecAdminViews ==
  InitAdminViews
  /\ [][ \/ generate_video_action
         \/ resume_video_action
         \/ cancel_video_action
         \/ job_type = DRAMA /\ \E rework_fn \in ReworkOps : _execute_rework_action(rework_fn)
         \/ \E t \in Threads : rework_returns(t) ]_vars


\* ------------------------- regenerate_final_video for two jobs at a time
\* Request t is regenerate_final_video(job t).  The segment videos of job t
\* are tagged t.  probe.files is tempfile.gettempdir(): for each segment
\* index k the content of segment_{k:02d}.mp4, 0 when there is no such file.
\* run[t].hist is temp_paths, run[t].st["sources"] what was concatenated
\* into the final video of job t.
InitMerge ==
  /\ job_type = DRAMA
  /\ db = [ NewJob EXCEPT !.status = COMPLETED ]
  /\ segs = <<>>
  /\ frames = <<>>
  /\ probe = [ op |-> "tempdir", files |-> [ k \in 1..MaxScenes |-> 0 ] ]
  /\ \E n \in [ Threads -> 1..MaxScenes ] :
       run = [ t \in Threads |->
                 [ IdleRun EXCEPT
                     !.pc = "write", !.node = "regenerate_final_video",
                     !.base = [ NoBase EXCEPT
                                  !.segs = [ i \in 1..n[t] |->
                                               [ prompt |-> 1, video_file |-> t,
                                                 status |-> "completed" ] ] ] ] ]

\* one turn of `for seg in segments`: download, temp_path.write_bytes
write_segment_file(t) ==
  /\ run[t].pc = "write"
  /\ Len(run[t].hist) < Len(run[t].base.segs)
  /\ LET k == Len(run[t].hist) + 1
     IN /\ probe' = [ probe EXCEPT !.files[k] = run[t].base.segs[k].video_file ]
        /\ run' = [ run EXCEPT ![t].hist = Append(@, k) ]
  /\ UNCHANGED << job_type, db, segs, frames >>

\* concatenate_segments(segment_paths=temp_paths, ...) reads the files that
\* are at the paths now, and raises when one of them is gone; then
\* job.final_video.save and job.save()
concatenate_temp_files(t) ==
  /\ run[t].pc = "write"
  /\ Len(run[t].hist) = Len(run[t].base.segs)
  /\ LET read == [ i \in 1..Len(run[t].hist) |-> probe.files[run[t].hist[i]] ]
     IN run' = [ run EXCEPT
                   ![t] = IF \E i \in 1..Len(read) : read[i] = 0
                          THEN [ @ EXCEPT !.pc = "finally", !.ok = FALSE ]
                          ELSE [ @ EXCEPT !.pc = "finally",
                                          !.st = ("sources" :> read),
                                          !.job = [ @ EXCEPT !.final_video = t ] ] ]
  /\ UNCHANGED << job_type, db, segs, frames, probe >>

\* finally: temp_path.unlink(missing_ok=True) for every path of temp_paths
unlink_temp_files(t) ==
  /\ run[t].pc = "finally"
  /\ probe' = [ probe EXCEPT
                  !.files = [ k \in 1..MaxScenes |->
                                IF \E i \in 1..Len(run[t].hist) : run[t].hist[i] = k
                                THEN 0 ELSE @[k] ] ]
  /\ run' = [ run EXCEPT ![t].pc = "done" ]
  /\ UNCHANGED << job_type, db, segs, frames >>

SpecMerge ==
  InitMerge
  /\ [][ \E t \in Threads :
           write_segment_file(t) \/ concatenate_temp_files(t) \/ unlink_temp_files(t) ]_vars


\* ------------------------- generate_video_sync_simple beside the other runs
\* graph.invoke(initial_state): the final states the compiled graph can end
\* in when it is at node_name with state; after a node that sets 'error' the
\* graph goes to handle_error, which leaves it set, and ends.
RECURSIVE graph_invoke(_, _, _)
graph_invoke(state, node_name, tok) ==
  UNION { LET res == Invoke(node_name, state, o, tok) IN
          IF res.raised THEN { [ raised |-> TRUE, state |-> state ] }
          ELSE LET merged == StreamMerge(state, res.out) IN
               IF Get(res.out, "error", "") # "" \/ NextNode(NODE_ORDER, node_name) = ""
               THEN { [ raised |-> FALSE, state |-> merged ] }
               ELSE graph_invoke(merged, NextNode(NODE_ORDER, node_name), tok)
          : o \in Outcomes(node_name, state) }

\* generate_video_sync_simple(job), called on the job as it is stored, up to
\* graph.invoke
generate_video_sync_simple(t) ==
  /\ job_type = DRAMA
  /\ FreeThread(t)
  /\ db' = [ db EXCEPT !.status = PLANNING, !.skipped_segments = <<>> ]
  /\ run' = [ run EXCEPT ![t] = [ IdleRun EXCEPT
                !.pc = "invoke", !.node = "generate_video_sync_simple",
                !.job = db', !.st = initial_state(db) ] ]
  /\ UNCHANGED << probe, job_type, segs, frames >>

\* graph.invoke returns or raises: the error check, the results saved in one
\* go and the job COMPLETED, or the except block (FAILED and error_message,
\* nothing else)
sync_simple_returns(t) ==
  /\ run[t].pc = "invoke"
  /\ \E final \in graph_invoke(run[t].st, "plan_script", t) :
       LET job == run[t].job
           fs == final.state
       IN IF final.raised \/ fs["error"] # ""
          THEN /\ db' = [ job EXCEPT !.status = FAILED,
                            !.error_message = IF final.raised THEN "exception"
                                              ELSE fs["error"] ]
               /\ segs' = segs
               /\ run' = [ run EXCEPT ![t] = Finished(@, "failed") ]
          ELSE /\ db' = [ job EXCEPT
                            !.script_json = fs["script_json"],
                            !.product_detail = fs["product_detail"],
                            !.character_details = fs["character_details"],
                            !.skipped_segments = fs["skipped_segments"],
                            !.first_frame = IF fs["first_frame_image"] # 0
                                            THEN fs["first_frame_image"] ELSE @,
                            !.scene1_last_frame = IF fs["scene1_last_frame_image"] # 0
                                                  THEN fs["scene1_last_frame_image"] ELSE @,
                            !.cta_last_frame = IF fs["cta_last_frame_image"] # 0
                                               THEN fs["cta_last_frame_image"] ELSE @,
                            !.final_video = IF fs["final_video_bytes"] # 0
                                            THEN fs["final_video_bytes"] ELSE @,
                            !.status = COMPLETED ]
               /\ segs' = [ i \in 1..Len(fs["segments"]) |->
                              [ title |-> Get(fs["segments"][i], "title", DefaultTitle(i)),
                                seconds |-> Get(fs["segments"][i], "seconds", 8),
                                prompt |-> Get(fs["segments"][i], "prompt", 0),
                                video_file |->
                                  IF i <= Len(fs["segment_videos"])
                                  THEN fs["segment_videos"][i]["video_bytes"]
                                  ELSE IF i <= Len(segs) THEN segs[i].video_file ELSE 0,
                                status |-> "completed" ] ]
               /\ run' = [ run EXCEPT ![t] = Finished(@, "completed") ]
  /\ UNCHANGED << probe, job_type, frames >>

\* every way of running a job: the admin views, the thread bodies, and the
\* two service functions called directly
SpecRunFunctions ==
  Init
  /\ [][ \/ Next
         \/ \E t \in Threads : generate_video_sync_simple(t)
         \/ \E t \in Threads : sync_simple_returns(t) ]_vars


\* ------------------------------------------------ VideoAsset, on its own
AssetType == { "last_cta_image", "sound_effect" }

\* no row stored under a primary key
NoAsset == [ asset_type |-> "", is_active |-> FALSE ]

\* the VideoAsset table is empty; no instance was saved yet
InitAssets ==
  /\ job_type = DRAMA
  /\ db = NewJob
  /\ segs = <<>>
  /\ frames = <<>>
  /\ run = [ t \in Threads |-> IdleRun ]
  /\ probe = [ op |-> "VideoAsset",
               rows |-> [ pk \in 1..MaxItems |-> NoAsset ],
               self |-> [ pk |-> 0, asset_type |-> "", is_active |-> FALSE ] ]

\* a faulty save: the row is written and no other row is touched
save_without_deactivation(self) ==
  /\ probe.op = "VideoAsset"
  /\ probe' = [ probe EXCEPT
                 !.rows[self.pk] = [ asset_type |-> self.asset_type,
                                     is_active |-> self.is_active ],
                 !.self = self ]
  /\ UNCHANGED << job_type, db, segs, frames, run >>

\* VideoAsset.save: when self.is_active, filter(asset_type=self.asset_type,
\* is_active=True).exclude(pk=self.pk).update(is_active=False); then
\* super().save() writes the row of self (an insert when there is none)
VideoAsset_save(self) ==
  /\ probe.op = "VideoAsset"
  /\ LET updated ==
           [ pk \in 1..MaxItems |->
               IF /\ self.is_active
                  /\ probe.rows[pk] # NoAsset
                  /\ probe.rows[pk].asset_type = self.asset_type
                  /\ probe.rows[pk].is_active
                  /\ pk # self.pk
               THEN [ probe.rows[pk] EXCEPT !.is_active = FALSE ]
               ELSE probe.rows[pk] ]
     IN probe' = [ probe EXCEPT
                     !.rows = [ updated EXCEPT
                                  ![self.pk] = [ asset_type |-> self.asset_type,
                                                 is_active |-> self.is_active ] ],
                     !.self = self ]
  /\ UNCHANGED << job_type, db, segs, frames, run >>

\* VideoAsset.get_active_asset: filter(asset_type=..., is_active=True).first()
\* under Meta.ordering (asset_type, -created_at): the active row of the type
\* created last, or 0 for None
get_active_asset(rows, asset_type) ==
  LET active == { pk \in DOMAIN rows :
                    rows[pk].asset_type = asset_type /\ rows[pk].is_active }
  IN IF active = {} THEN 0
     ELSE CHOOSE pk \in active : \A other \in active : other <= pk

SpecAssets ==
  InitAssets
  /\ [][ \E pk \in 1..MaxItems, asset_type \in AssetType, is_active \in BOOLEAN :
           VideoAsset_save([ pk |-> pk, asset_type |-> asset_type,
                             is_active |-> is_active ]) ]_vars


\* ================================================================== claims
\* the stage label of a step, for either kind
StageLabel(node_name) == (NODE_TO_STATUS @@ GAME_NODE_TO_STATUS)[node_name]

\* the artifacts each stage stores, stage by stage in pipeline order
Artifacts(kind, job, segrows, framerows) ==
  IF kind = DRAMA
  THEN << << job.script_json, job.product_detail, job.character_details >>,
          << job.first_frame, [ i \in 1..Len(segrows) |-> segrows[i].prompt ] >>,
          << IF Len(segrows) >= 1 THEN segrows[1].video_file ELSE 0,
             job.scene1_last_frame >>,
          << job.cta_last_frame >>,
          << IF Len(segrows) >= 2 THEN segrows[2].video_file ELSE 0 >>,
          << job.final_video, job.skipped_segments >> >>
  ELSE << << job.character_description, job.game_locations_used, job.script_json,
             [ i \in 1..Len(framerows) |-> framerows[i].prompt ] >>,
          << [ i \in 1..Len(framerows) |-> framerows[i].image_file ] >>,
          << [ i \in 1..Len(framerows) |-> framerows[i].video_file ] >>,
          << job.final_video >> >>

Order(kind) == IF kind = DRAMA THEN NODE_ORDER ELSE GAME_NODE_ORDER

\* the artifacts of the stages before the stage of node_name
ArtifactsBefore(kind, node_name, job, segrows, framerows) ==
  SubSeq(Artifacts(kind, job, segrows, framerows), 1, IndexOf(Order(kind), node_name) - 1)

IsPrefix(s, t) == Len(s) <= Len(t) /\ \A i \in 1..Len(s) : s[i] = t[i]

\* run t returns from its node in this step
Returns(t) == run[t].pc = "inflight" /\ run'[t] # run[t]
Succeeds(t) == Returns(t) /\ run'[t].pc # "failed"
Fails(t) == Returns(t) /\ run'[t].pc = "failed"

\* C1 (exclusive execution): of two start() calls on the same job only one
\* proceeds past the initial claim, so no two runs ever advance the job at the
\* same time.
C1_ExclusiveExecution ==
  Cardinality({ t \in Threads : run[t].pc = "inflight" }) <= 1

\* C2 (failure transition): when the step a run is executing fails, by an
\* error result or an exception, the job is persisted FAILED with
\* failed_at_status the stage label of that step and a non-empty
\* error_message, and the run invokes no later step.
C2_FailureTransition ==
  [][ \A t \in Threads :
        Fails(t) =>
          /\ db'.status = FAILED
          /\ db'.failed_at_status = StageLabel(run[t].node)
          /\ db'.error_message # ""
          /\ run'[t].hist = run[t].hist ]_vars

\* C2, for a job no run or cancellation has failed before: the failure of a
\* step that reports an error result records that step's stage.
C2_Witness ==
  /\ job_type = DRAMA
  /\ \E t \in Threads : run[t].pc = "failed" /\ run[t].hist = << "plan_script", "prepare_first_frame" >>
  /\ db.status = FAILED /\ db.failed_at_status = PREPARING
  /\ db.script_json.tok # 0 /\ db.first_frame = 0


\* the step the claim's table gives for a stage label: the step that carries
\* the label, and the first step for any value no later step carries
TableStep(kind, key) ==
  LET order == Order(kind)
      own == { i \in 2..Len(order) : StageLabel(order[i]) = key }
  IN IF own = {} THEN order[1] ELSE order[CHOOSE i \in own : TRUE]

\* C3 (resume planner mapping): get_resume_entry_point and
\* get_game_resume_entry_point return the table's step for failed_at_status
\* when it is non-empty and for status otherwise; PENDING, PLANNING and any
\* value outside the table give the first step.
C3_ResumePlannerMapping ==
  probe.op \in { "get_resume_entry_point", "get_game_resume_entry_point" } =>
    probe.result =
      TableStep(job_type, IF db.failed_at_status # "" THEN db.failed_at_status
                          ELSE db.status)

\* C3: the planner was asked about a job whose status and failed_at_status
\* name different stages of the table
C3_Witness ==
  /\ probe.op = "get_game_resume_entry_point"
  /\ db.status = GENERATING_FRAMES
  /\ db.failed_at_status = MERGING
  /\ probe.result = "merge_game_videos"

C5_ResumeIdempotence ==
  [][ \A t \in Threads :
        /\ Returns(t)
        /\ run'[t].pc = "completed"
        /\ run[t].start_from # ""
        /\ run[t].base.job.failed_at_status = StageLabel(run[t].start_from)
        => ArtifactsBefore(job_type, run[t].start_from, db', segs', frames')
             = ArtifactsBefore(job_type, run[t].start_from, run[t].base.job,
                               run[t].base.segs, run[t].base.frames) ]_vars

AllModeration == \A i \in 1..(probe.max_retries + 1) : probe.env[i] = "moderation"

\* C6 (moderation retry bound): with a generation function that raises a
\* moderation error on every call, the wrapper calls it exactly
\* max_retries + 1 times and then returns None, for every budget >= 1.
C6_ModerationRetryBound ==
  probe.op = "_generate_with_moderation_retry" /\ AllModeration =>
    /\ Len(probe.res.calls) = probe.max_retries + 1
    /\ probe.res.ret = 0
    /\ ~probe.res.raised

\* C6: the wrapper ran out of the budget the program configures
C6_Witness ==
  /\ probe.op = "_generate_with_moderation_retry"
  /\ AllModeration
  /\ probe.max_retries = MAX_MODERATION_RETRIES
  /\ Len(probe.res.calls) = MAX_MODERATION_RETRIES + 1

\* C7 (non-moderation no-retry): with a generation function that raises a
\* non-moderation error on the first attempt, the wrapper makes exactly one
\* call and the error propagates to the caller, unlike the None of an
\* exhausted budget.
C7_NonModerationPropagates ==
  probe.op = "_generate_with_moderation_retry" /\ probe.env[1] = "other" =>
    Len(probe.res.calls) = 1 /\ probe.res.raised

C9_CooperativeCancellation ==
  [][ \A t \in Threads :
        /\ db.status = FAILED
        /\ db.error_message = "cancelled"
        /\ Returns(t)
        => /\ run'[t].hist = run[t].hist
           /\ db'.status = FAILED
           /\ db'.failed_at_status = db.failed_at_status ]_vars

\* C10 (monotonic persistence): when a step succeeds, persisting its result
\* leaves the stored artifacts of every earlier stage as they were.
C10_MonotonicPersistence ==
  [][ \A t \in Threads :
        Succeeds(t) =>
          ArtifactsBefore(job_type, run[t].node, db', segs', frames')
            = ArtifactsBefore(job_type, run[t].node, db, segs, frames) ]_vars

\* C11 (most-recent failure point): when a run on a job that failed before at
\* stage k fails at a different stage j, by an error result or by an
\* exception, failed_at_status is j after the second failure.
C11_MostRecentFailurePoint ==
  [][ \A t \in Threads :
        ( /\ Fails(t)
          /\ run[t].job.failed_at_status # ""
          /\ run[t].job.failed_at_status # StageLabel(run[t].node) )
        => db'.failed_at_status = StageLabel(run[t].node) ]_vars

\* the status values of a kind that are not terminal: PENDING and its stages
NonTerminal(kind) ==
  { PENDING } \cup (IF kind = DRAMA THEN IN_PROGRESS_STATUSES
                    ELSE GAME_IN_PROGRESS_STATUSES)

\* the stage-to-step tables the planner of a kind reads
ResumeTables(kind) ==
  IF kind = DRAMA THEN { STATUS_TO_RESUME_NODE, resume_map }
  ELSE { GAME_STATUS_TO_RESUME_NODE }

\* C12 (stage table totality): every non-terminal status value a job of a
\* kind carries, as status or as failed_at_status, has an entry in each
\* stage-to-step table of that kind, and the step of that entry is one of the
\* kind's step order.
C12_StageTableTotality ==
  \A s \in { db.status, db.failed_at_status } \cap NonTerminal(job_type) :
    \A m \in ResumeTables(job_type) :
      /\ s \in DOMAIN m
      /\ \E i \in 1..Len(Order(job_type)) : Order(job_type)[i] = m[s]

\* C12: the planner was asked about a DRAMA job at the last intermediate
\* stage and answered from the table
C12_Witness ==
  /\ job_type = DRAMA
  /\ probe.op = "get_resume_entry_point"
  /\ db.failed_at_status = ""
  /\ db.status = CONCATENATING
  /\ probe.result = "concatenate_videos"

\* the stage labels of a kind, in pipeline order
Stages(kind) == [ i \in 1..Len(Order(kind)) |-> StageLabel(Order(kind)[i]) ]

\* run t is a fresh run (from the first step) whose external calls all
\* succeeded so far
FreshAndOk(r) == r.start_from = "" /\ r.hist # <<>> /\ r.ok

\* C13 (successful forward pass): a fresh run of either kind whose external
\* calls all succeed invokes the steps one after another in the fixed order,
\* saves the kind's stage labels in order, each once, and ends COMPLETED with
\* the final video stored.
C13_SuccessfulForwardPass ==
  [][ \A t \in Threads :
        ( Returns(t) /\ FreshAndOk(run'[t]) ) =>
          /\ IsPrefix(run'[t].hist, Order(job_type))
          /\ run'[t].pc # "failed"
          /\ run'[t].pc = "inflight" => IsPrefix(run'[t].trail, Stages(job_type))
          /\ run'[t].pc = "completed" =>
               /\ run'[t].hist = Order(job_type)
               /\ run'[t].trail = Stages(job_type) \o << COMPLETED >>
               /\ db'.status = COMPLETED
               /\ db'.final_video # 0 ]_vars

\* run t calls a node in this step
Invokes(t) == Len(run'[t].hist) > Len(run[t].hist)

\* C14 (status precedes execution): at the moment a run, fresh or resumed,
\* invokes the function of a step, the persisted status of the job is that
\* step's stage label.
C14_StatusPrecedesExecution ==
  [][ \A t \in Threads :
        Invokes(t) => db'.status = StageLabel(run'[t].node) ]_vars

\* the entries of a fan-out result list for scene sc
EntriesOf(results, sc) == { i \in 1..Len(results) : results[i]["scene"] = sc }

\* C15 (partial fan-out failure): when frame generation raises for some but
\* not all of the N scenes, generate_game_frames returns without a step
\* error, its result list has N entries, a success for each scene that
\* returned and an error entry for each scene that raised, and the state
\* handed to the video step holds the frame urls of exactly the successful
\* scenes.
C15_PartialFanOutFailure ==
  ( /\ probe.op = "generate_game_frames"
    /\ probe.o.okset # {}
    /\ probe.o.okset # 1..probe.n )
  => LET results == Get(probe.out, "_frame_results", <<>>) IN
     /\ ~probe.raised
     /\ Get(probe.out, "error", "") = ""
     /\ probe.outcome = "next"
     /\ Len(results) = probe.n
     /\ \A sc \in 1..probe.n :
          /\ Cardinality(EntriesOf(results, sc)) = 1
          /\ \A i \in EntriesOf(results, sc) :
               IF sc \in probe.o.okset
               THEN "_image_bytes" \in DOMAIN results[i] /\ "error" \notin DOMAIN results[i]
               ELSE "error" \in DOMAIN results[i] /\ "_image_bytes" \notin DOMAIN results[i]
     /\ probe.state["frame_urls"] = SeqOfSet(probe.o.okset)

\* C15: of three scenes the second raised and the other two returned
C15_Witness ==
  /\ probe.op = "generate_game_frames"
  /\ probe.n = 3
  /\ probe.o.okset = { 1, 3 }
  /\ probe.state["frame_urls"] = << 1, 3 >>
  /\ frames[2].image_file = 0 /\ frames[3].image_file # 0

\* C16 (fan-out failure policy): the frame step and the video step succeed
\* when at least one of their items succeeds, and when every item fails the
\* step is reported as failed: the job is FAILED with failed_at_status that
\* step's stage and the run does not go on to the next step.
C16_FanOutFailurePolicy ==
  ( probe.op \in { "generate_game_frames", "generate_game_videos" }
    /\ Len(probe.o.order) > 0 )
  => IF probe.o.okset # {}
     THEN probe.outcome = "next"
     ELSE /\ probe.outcome = "failed"
          /\ db.status = FAILED
          /\ db.failed_at_status = StageLabel(probe.op)

\* the job fields and the segments (by position) a rework step stores
ReworkWrites(op) ==
  CASE op = "regenerate_first_frame" -> [ job |-> { "first_frame" }, segs |-> {} ]
    [] op = "regenerate_scene1" -> [ job |-> { "scene1_last_frame" }, segs |-> { 1 } ]
    [] op = "regenerate_cta_last_frame" -> [ job |-> { "cta_last_frame" }, segs |-> {} ]
    [] op = "regenerate_scene2" -> [ job |-> {}, segs |-> { 2 } ]
    [] op = "regenerate_final_video" -> [ job |-> { "final_video" }, segs |-> {} ]

\* C17 (rework leaves the state machine alone): the admin runs a rework
\* function only on a job whose status is COMPLETED; whether the function
\* returns or raises, status and failed_at_status stay as they were and only
\* the artifact fields of the one step it re-runs differ from the rows as
\* they were just before the function saved.
C17_ReworkLeavesStateMachine ==
  probe.op \in ReworkOps =>
    LET before == probe.before
        writes == ReworkWrites(probe.op)
    IN /\ probe.called => before.job.status = COMPLETED
       /\ ~probe.called => db = before.job /\ segs = before.segs
       /\ db.status = before.job.status
       /\ db.failed_at_status = before.job.failed_at_status
       /\ \A f \in DOMAIN db \ writes.job : db[f] = before.job[f]
       /\ Len(segs) = Len(before.segs)
       /\ \A i \in 1..Len(segs) :
            IF i \in writes.segs THEN segs[i].prompt = before.segs[i].prompt
            ELSE segs[i] = before.segs[i]

\* an input artifact that the rework step declares is missing
MissingInput(op, job, segrows) ==
  CASE op = "regenerate_first_frame" -> job.script_json.tok = 0 \/ job.script_json.n = 0
    [] op = "regenerate_scene1" ->
         job.first_frame = 0 \/ Len(segrows) < 1 \/ segrows[1].prompt = 0
    [] op = "regenerate_cta_last_frame" ->
         job.first_frame = 0 \/ job.product_image_url = 0
    [] op = "regenerate_scene2" ->
         \/ job.scene1_last_frame = 0 \/ job.cta_last_frame = 0
         \/ Len(segrows) < 2 \/ segrows[2].prompt = 0
    [] op = "regenerate_final_video" -> \A i \in 1..Len(segrows) : segrows[i].video_file = 0

\* C18 (rework input precondition): a rework function invoked while one of
\* its declared input artifacts is missing ends in an error, makes no
\* external call and leaves every persisted field of the job and of its
\* segments unchanged.
C18_ReworkInputPrecondition ==
  ( /\ probe.op \in ReworkOps
    /\ probe.called
    /\ MissingInput(probe.op, probe.before.job, probe.before.segs) )
  => /\ probe.raised
     /\ probe.calls = 0
     /\ db = probe.before.job
     /\ segs = probe.before.segs

\* C18: Scene 2 was asked for on a job that has the last frame of Scene 1, a
\* second segment with a prompt, and no CTA frame
C18_Witness ==
  /\ probe.op = "regenerate_scene2"
  /\ probe.called /\ probe.raised
  /\ db.scene1_last_frame # 0 /\ db.cta_last_frame = 0
  /\ Len(segs) >= 2 /\ segs[2].prompt # 0


\* the step a resume starts from, by the stage table of the kind: the stage
\* of the failure, or the status when no failure is recorded
MapsTo(kind, job) ==
  LET table == IF kind = DRAMA THEN STATUS_TO_RESUME_NODE ELSE GAME_STATUS_TO_RESUME_NODE
      stage == IF job.failed_at_status # "" THEN job.failed_at_status ELSE job.status
  IN Get(table, stage, Order(kind)[1])

\* C19 (resume without checkpoint): a resume request on a job whose
\* failed_at_status (or status, if none) maps to the first step of its
\* pipeline is not rejected: it is answered as a resume and starts a run.
C19_ResumeWithoutCheckpoint ==
  ( /\ probe.op = "resume_video_action"
    /\ MapsTo(job_type, probe.job) = Order(job_type)[1] )
  => /\ probe.message = MSG_JOB_RESUMED
     /\ probe.started

\* the artifact fields of a job row, and whether a stored value is there
ArtifactFields ==
  { "script_json", "product_detail", "character_details", "first_frame",
    "scene1_last_frame", "cta_last_frame", "final_video", "character_description",
    "game_locations_used" }

Populated(job, f) == IF f = "script_json" THEN job[f].tok # 0 ELSE job[f] # 0

\* what is stored in the rows before this step is still stored after it
StillPopulated ==
  /\ \A f \in ArtifactFields : Populated(db, f) => Populated(db', f)
  /\ Len(segs') >= Len(segs)
  /\ \A i \in 1..Len(segs) :
       /\ segs[i].prompt # 0 => segs'[i].prompt # 0
       /\ segs[i].video_file # 0 => segs'[i].video_file # 0
  /\ Len(frames') >= Len(frames)
  /\ \A i \in 1..Len(frames) :
       /\ frames[i].prompt # 0 => frames'[i].prompt # 0
       /\ frames[i].image_file # 0 => frames'[i].image_file # 0
       /\ frames[i].video_file # 0 => frames'[i].video_file # 0

\* C20 (failed jobs are diagnosable): whenever the job is FAILED, its
\* failed_at_status and its error_message are non-empty, and no step that
\* leaves the job FAILED removes an artifact that was stored before it.
C20_FailedJobsDiagnosable ==
  [][ db'.status = FAILED =>
        /\ db'.failed_at_status # ""
        /\ db'.error_message # ""
        /\ StillPopulated ]_vars

C22_ErrorMessageLifetime ==
  ( \/ db.status = COMPLETED
    \/ db.status # FAILED /\ \E t \in Threads : run[t].pc = "inflight" )
  => db.error_message = ""

\* C23 (_create_video_segments): after the call the job has one segment per
\* entry of data, at the indices 0..len(data)-1, each with the title, seconds
\* and prompt of its entry (defaults: "Segment i+1", 8, empty) and status
\* PENDING; a second call with the same data leaves the same rows.
C23_CreateVideoSegments ==
  probe.op = "_create_video_segments" =>
    /\ Len(segs) = Len(probe.data)
    /\ \A i \in 1..Len(segs) :
         LET entry == probe.data[i] IN
         /\ segs[i].title = IF "title" \in DOMAIN entry THEN entry.title
                            ELSE << "Segment", i >>
         /\ segs[i].seconds = IF "seconds" \in DOMAIN entry THEN entry.seconds ELSE 8
         /\ segs[i].prompt = IF "prompt" \in DOMAIN entry THEN entry.prompt ELSE 0
         /\ segs[i].status = "pending"
    /\ segs = probe.first

\* C23: two rows, the second with a video, were replaced by one row built
\* from an entry without a title, and the call was repeated
C23_Witness ==
  /\ probe.op = "_create_video_segments"
  /\ probe.calls = 2
  /\ Len(probe.before) = 2 /\ probe.before[2].video_file # 0
  /\ Len(probe.data) = 1 /\ "title" \notin DOMAIN probe.data[1]
  /\ Len(segs) = 1

\* two characters that are equal but for their case
SameLetter(a, b) ==
  \/ a = b
  \/ a \in UpperCase /\ LowerOf[a] = b
  \/ b \in UpperCase /\ LowerOf[b] = a

\* C24 (moderation classification): every keyword is stored in lowercase, and
\* a failure of the provider call is re-raised as ModerationError exactly
\* when its text contains one of the keywords, whatever the case of its
\* letters; every other failure is re-raised as it is.
C24_ModerationClassification ==
  /\ \A k \in DOMAIN MODERATION_KEYWORDS :
       \A j \in DOMAIN MODERATION_KEYWORDS[k] : MODERATION_KEYWORDS[k][j] \notin UpperCase
  /\ probe.op = "_check_moderation_error" =>
       IF \E k \in DOMAIN MODERATION_KEYWORDS, i \in 1..Len(probe.exception.text) :
            /\ i + Len(MODERATION_KEYWORDS[k]) - 1 <= Len(probe.exception.text)
            /\ \A j \in 1..Len(MODERATION_KEYWORDS[k]) :
                 SameLetter(probe.exception.text[i + j - 1], MODERATION_KEYWORDS[k][j])
       THEN probe.raised = [ type |-> "ModerationError", text |-> probe.exception.text ]
       ELSE probe.raised = probe.exception

\* C24: a text with the keyword in mixed case was classified as moderation
C24_Witness ==
  /\ probe.op = "_check_moderation_error"
  /\ probe.exception.text = << "x", "N", "S", "f", "w" >>
  /\ probe.raised.type = "ModerationError"

\* the statuses of a kind from PENDING through its stages to COMPLETED
Ladder(kind) == << PENDING >> \o Stages(kind) \o << COMPLETED >>

\* C25 (progress percentages): the percentage shown for a status is within
\* 0..100; PENDING, FAILED and a status the kind does not know give 0,
\* COMPLETED gives 100, the k-th status after PENDING gives the integer part
\* of k * 100 / total (total 7 for DRAMA, 5 for CHARACTER), and the
\* percentages increase strictly along the stages of a kind.
C25_ProgressPercentages ==
  /\ \A kind \in JobType :
       LET table == IF kind = DRAMA THEN PROGRESS_PERCENTAGES
                    ELSE GAME_PROGRESS_PERCENTAGES
           total == IF kind = DRAMA THEN 7 ELSE 5
           ladder == Ladder(kind)
       IN /\ Len(ladder) = total + 1
          /\ \A k \in 1..Len(ladder) :
               /\ ladder[k] \in DOMAIN table
               /\ table[ladder[k]] * total <= (k - 1) * 100
               /\ (table[ladder[k]] + 1) * total > (k - 1) * 100
               /\ k > 1 => table[ladder[k]] > table[ladder[k - 1]]
  /\ probe.op = "_render_progress_bar" =>
       LET ladder == Ladder(job_type) IN
       /\ probe.progress \in 0..100
       /\ db.status \in { PENDING, FAILED } => probe.progress = 0
       /\ db.status \notin { ladder[k] : k \in 1..Len(ladder) } => probe.progress = 0
       /\ db.status = COMPLETED => probe.progress = 100
       /\ \A k \in 1..Len(ladder) :
            db.status = ladder[k] =>
              probe.progress = ((k - 1) * 100) \div (Len(ladder) - 1)

\* C25: the percentage of a CHARACTER job that is generating videos
C25_Witness ==
  /\ probe.op = "_render_progress_bar"
  /\ job_type = GAME
  /\ db.status = GENERATING_VIDEOS
  /\ probe.progress = 60

\* the stored outputs of earlier steps that step node_name consumes are there
InputsPresent(node_name, job, segrows, framerows) ==
  CASE node_name = "prepare_first_frame" -> job.script_json.tok # 0
    [] node_name = "generate_scene1" ->
         job.first_frame # 0 /\ Len(segrows) >= 1 /\ segrows[1].prompt # 0
    [] node_name = "prepare_cta_frame" -> job.first_frame # 0
    [] node_name = "generate_scene2" ->
         /\ job.scene1_last_frame # 0 /\ job.cta_last_frame # 0
         /\ Len(segrows) >= 2 /\ segrows[2].prompt # 0
    [] node_name = "concatenate_videos" ->
         \E i \in 1..Len(segrows) : segrows[i].video_file # 0
    [] node_name = "generate_game_frames" -> job.script_json.tok # 0 /\ Len(framerows) >= 1
    [] node_name = "generate_game_videos" ->
         \E i \in 1..Len(framerows) : framerows[i].image_file # 0
    [] node_name = "merge_game_videos" ->
         \E i \in 1..Len(framerows) : framerows[i].video_file # 0
    [] OTHER -> TRUE

\* the artifacts of the rows are filled in pipeline order: what a later step
\* stores is there only if what the steps before it store is there
FilledInOrder(kind, job, segrows, framerows) ==
  IF kind = DRAMA
  THEN /\ (job.first_frame # 0 \/ Len(segrows) > 0) => job.script_json.tok # 0
       /\ job.scene1_last_frame # 0 => job.first_frame # 0
       /\ (\E i \in 1..Len(segrows) : segrows[i].video_file # 0) => job.first_frame # 0
       /\ job.cta_last_frame # 0 => job.first_frame # 0
       /\ job.final_video # 0 => \E i \in 1..Len(segrows) : segrows[i].video_file # 0
  ELSE /\ Len(framerows) > 0 => job.script_json.tok # 0
       /\ \A i \in 1..Len(framerows) :
            framerows[i].video_file # 0 => framerows[i].image_file # 0
       /\ job.final_video # 0 => \E i \in 1..Len(framerows) : framerows[i].video_file # 0

\* C26 (artifact order invariant): the artifact fields of a job are filled in
\* pipeline order in every state, and a resumed run enters at step k only
\* when the stored outputs of earlier steps that k consumes are present.
C26_ArtifactOrder ==
  [][ /\ FilledInOrder(job_type, db', segs', frames')
      /\ \A t \in Threads :
           ( run[t].pc = "spawned" /\ run'[t].pc = "inflight" /\ run'[t].start_from # "" )
           => InputsPresent(run'[t].start_from, db, segs, frames) ]_vars

\* C27 (effect of a cancellation): cancel_video_action on a job in progress
\* sets status FAILED, failed_at_status to the status held just before and a
\* non-empty error_message, and changes no artifact field and no child row;
\* on a PENDING, COMPLETED or FAILED job it changes nothing.  The row it
\* leaves differs from the one before in these three fields only, as after a
\* failed step, and resumes at the step that was interrupted.
C27_CancelEffect ==
  [][ cancel_video_action =>
        /\ db.status \in { PENDING, COMPLETED, FAILED } => UNCHANGED vars
        /\ db.status \notin { PENDING, COMPLETED, FAILED } =>
             /\ db'.status = FAILED
             /\ db'.failed_at_status = db.status
             /\ db'.error_message # ""
             /\ \A f \in ArtifactFields : db'[f] = db[f]
             /\ segs' = segs /\ frames' = frames
             /\ db' = [ db EXCEPT !.status = FAILED, !.failed_at_status = db.status,
                                  !.error_message = db'.error_message ]
             /\ LET before == [ db EXCEPT !.failed_at_status = "" ]
                IN IF job_type = GAME
                   THEN get_game_resume_entry_point(db') = get_game_resume_entry_point(before)
                   ELSE get_resume_entry_point(db') = get_resume_entry_point(before) ]_vars

\* a job cancelled in the middle of the pipeline, its script still stored
C27_Witness ==
  /\ db.status = FAILED
  /\ db.error_message = "cancelled"
  /\ db.failed_at_status \notin { "", PLANNING }
  /\ Populated(db, "script_json")

\* thread t executes the planning step of the job's kind in this step
PlansNow(t) ==
  /\ run[t].pc = "inflight"
  /\ run[t].node = (IF job_type = GAME THEN "plan_game_scripts" ELSE "plan_script")
  /\ run'[t] # run[t]

\* the child rows of the job's kind
ChildRows == IF job_type = GAME THEN frames ELSE segs

\* a child row, or something stored in one, is gone after this step
ChildRowLost ==
  \/ Len(ChildRows') < Len(ChildRows)
  \/ \E i \in 1..Len(ChildRows) :
       /\ i <= Len(ChildRows')
       /\ \/ ChildRows[i].video_file # 0 /\ ChildRows'[i].video_file = 0
          \/ job_type = GAME /\ ChildRows[i].image_file # 0 /\ ChildRows'[i].image_file = 0

\* after the planning of thread t succeeded: one row per scene it planned,
\* nothing generated yet
ChildRowsCreated(t) ==
  /\ Len(ChildRows') = Get(run'[t].st, IF job_type = GAME THEN "scripts" ELSE "script_json",
                           NoJson).n
  /\ \A i \in 1..Len(ChildRows') :
       /\ ChildRows'[i].prompt # 0
       /\ ChildRows'[i].video_file = 0
       /\ job_type = GAME => ChildRows'[i].image_file = 0

\* C28 (child records follow planning): when the planning step of either
\* kind succeeds, the per-scene child rows exist, replacing any prior rows,
\* before the next step starts; and no step other than a run of planning
\* deletes a child row.
C28_ChildRecordsFollowPlanning ==
  [][ /\ \A t \in Threads :
           PlansNow(t) /\ run'[t].pc = "inflight" => ChildRowsCreated(t)
      /\ ChildRowLost => \E t \in Threads : PlansNow(t) ]_vars

\* C29 (progressive sanitization order): the first call of the retry wrapper
\* passes the base prompt unchanged, the call after the first moderation
\* rejection passes the prompt cleaned by the local regex pass alone, every
\* later call passes an LLM rewrite; a sanitizer is called once for each
\* moderation rejection that is followed by another attempt, and never after
\* the last attempt, a success or another failure.
C29_ProgressiveSanitization ==
  probe.op = "_generate_with_moderation_retry" =>
    LET calls == probe.res.calls
        sanitized == probe.res.sanitized
    IN /\ calls[1] = BasePrompt
       /\ Len(calls) >= 2 => calls[2].quick /\ calls[2].llm = 0
       /\ \A k \in 3..Len(calls) : calls[k].llm >= 1
       /\ Len(sanitized) = Len(calls) - 1
       /\ Len(sanitized) <= probe.max_retries
       /\ \A k \in 1..Len(sanitized) :
            /\ probe.env[k] = "moderation"
            /\ sanitized[k] = IF k = 1 THEN "quick_sanitize_names"
                              ELSE "sanitize_prompt_for_veo"
       /\ probe.env[Len(calls)] # "moderation" \/ Len(calls) = probe.max_retries + 1

\* three rejections in a row, a fourth call that fails for another reason,
\* and retries left: quick pass, rewrite of the original, rewrite of the rewrite
C29_Witness ==
  /\ probe.op = "_generate_with_moderation_retry"
  /\ Len(probe.res.calls) = 4
  /\ probe.max_retries >= 4
  /\ probe.env[4] = "other"
  /\ probe.res.calls[4].llm = 2

\* the result list of a fan-out step has one entry, a success or an error,
\* for each scene of submitted and no other, in ascending scene order
OneEntryPerScene(results, submitted, bytes_key) ==
  /\ Len(results) = Cardinality(submitted)
  /\ \A s \in submitted : \E i \in 1..Len(results) : results[i]["scene"] = s
  /\ \A i \in 1..Len(results) :
       /\ results[i]["scene"] \in submitted
       /\ (bytes_key \in DOMAIN results[i]) # ("error" \in DOMAIN results[i])
  /\ \A i, j \in 1..Len(results) : i < j => results[i]["scene"] < results[j]["scene"]

\* C30 (fan-in completeness and order): whatever the order in which the
\* sub-tasks complete and whichever of them fail, generate_game_frames and
\* generate_game_videos return a list with exactly one entry per submitted
\* scene, every sub-task accounted for, in ascending scene order.
C30_FanInCompleteAndOrdered ==
  /\ probe.op = "generate_game_frames" =>
       /\ ~probe.raised
       /\ OneEntryPerScene(probe.out["_frame_results"], 1..probe.n, "_image_bytes")
       /\ \A i \in 1..probe.n :
            ("error" \in DOMAIN probe.out["_frame_results"][i]) = (i \notin probe.o.okset)
  /\ probe.op = "generate_game_videos" =>
       /\ ~probe.raised
       /\ OneEntryPerScene(probe.out["_video_results"], VideoSubmitted(probe.state),
                           "_video_bytes")
       /\ \A i \in 1..Len(probe.out["_video_results"]) :
            ("error" \in DOMAIN probe.out["_video_results"][i])
              = (probe.out["_video_results"][i]["scene"] \notin probe.o.okset)

\* three videos submitted, the last scene completing first, one of them failing
C30_Witness ==
  /\ probe.op = "generate_game_videos"
  /\ Len(probe.o.order) = MaxItems
  /\ probe.o.order[1] = MaxItems
  /\ probe.o.okset # {} /\ probe.o.okset # 1..MaxItems

\* what a request must leave alone when it is refused
RequestRefused ==
  /\ run' = run
  /\ db'.status = db.status
  /\ db'.failed_at_status = db.failed_at_status
  /\ \A f \in ArtifactFields : db'[f] = db[f]
  /\ segs' = segs /\ frames' = frames

\* C31 (admin action enforcement): the generate view starts a run only on a
\* PENDING or FAILED job, the resume view only on a FAILED one, the cancel
\* view acts only on a job in progress and every rework view runs its
\* function only on a COMPLETED job; in any other status the request starts
\* no run and leaves status, failed_at_status and the artifacts as they were.
C31_AdminActionEnforcement ==
  [][ /\ generate_video_action =>
           IF db.status \in { PENDING, FAILED } THEN run' # run ELSE RequestRefused
      /\ resume_video_action =>
           IF db.status = FAILED THEN TRUE ELSE RequestRefused
      /\ cancel_video_action =>
           IF is_in_progress(db.status) THEN db'.status = FAILED ELSE RequestRefused
      /\ \A rework_fn \in ReworkOps :
           _execute_rework_action(rework_fn) =>
             IF db.status = COMPLETED
             THEN probe' # probe => probe'.called
             ELSE RequestRefused /\ ~probe'.called ]_vars

\* a rework request on a job that is not completed was turned away
C31_Witness ==
  /\ probe.op \in ReworkOps
  /\ ~probe.called
  /\ db.status = FAILED
  /\ \E t \in Threads : run[t].pc = "spawned"

\* C32 (scene/frame alignment): in a fresh run and in a resumed one, the
\* video stored for scene s was generated from the stored frame image of
\* scene s itself, and a scene without a frame image has no video.
C32_SceneFrameAlignment ==
  job_type = GAME =>
    \A i \in 1..Len(frames) :
      frames[i].video_file # 0 =>
        /\ frames[i].image_file # 0
        /\ frames[i].vsrc = frames[i].scene_number

\* C33 (cross-job isolation of the final merge): when regenerate_final_video
\* runs for two jobs at a time, each final video is built from the segment
\* videos of its own job only, every merge gets through, and no request
\* overwrites or deletes a temporary file that the other one has written and
\* has not yet cleaned up.
C33_MergeIsolation ==
  [][ \A t \in Threads :
        /\ run'[t].ok
        /\ \A i \in 1..Len(Get(run'[t].st, "sources", <<>>)) : run'[t].st["sources"][i] = t
        /\ run'[t] # run[t] =>
             \A k \in 1..MaxScenes :
               probe.files[k] \notin { 0, t } => probe'.files[k] = probe.files[k] ]_vars

\* the request behind a button is accepted for the rows as they are
Accepted(action_name, job, segrows) ==
  CASE action_name = "generate_video_action" -> job.status \in { PENDING, FAILED }
    [] action_name = "resume_video_action" -> ResumeMessage(job) = MSG_JOB_RESUMED
    [] action_name = "cancel_video_action" -> is_in_progress(job.status)
    [] OTHER ->
         /\ job.status = COMPLETED
         /\ CallRework(action_name, job, segrows, [ ok |-> TRUE, extract |-> TRUE ], 2).calls # 0

\* C34 (offered actions are executable): every action the detail page
\* offers for a job is accepted when it is invoked in that same state: an
\* offered resume is not answered with 'needs restart', an offered rework
\* does not fail for an input its function requires.
C34_OfferedActionsExecutable ==
  \A action_name \in _get_allowed_action_names(db, segs) : Accepted(action_name, db, segs)

Steps(order) == { order[i] : i \in 1..Len(order) }

\* a table is injective: no two keys share a value
Injective(table) ==
  \A m, n \in DOMAIN table : table[m] = table[n] => m = n

\* C37 (stage tables agree): for each kind and every step n of the kind's
\* step order, the resume step of the stage label the node-to-status table
\* gives n is n itself; both node-to-status tables are injective; the DRAMA
\* resume table inside services.get_resume_entry_point equals
\* STATUS_TO_RESUME_NODE; and a planner asked about a job standing at the
\* stage label of step n, with no failure point, answers n.
C37_StageTablesAgree ==
  /\ DOMAIN NODE_TO_STATUS = Steps(NODE_ORDER)
  /\ DOMAIN GAME_NODE_TO_STATUS = Steps(GAME_NODE_ORDER)
  /\ \A n \in Steps(NODE_ORDER) : get_resume_node(NODE_TO_STATUS[n]) = n
  /\ \A n \in Steps(GAME_NODE_ORDER) :
        get_game_resume_node(GAME_NODE_TO_STATUS[n]) = n
  /\ Injective(NODE_TO_STATUS)
  /\ Injective(GAME_NODE_TO_STATUS)
  /\ resume_map = STATUS_TO_RESUME_NODE
  /\ probe.op = "get_resume_entry_point" /\ db.failed_at_status = "" =>
        \A n \in Steps(NODE_ORDER) :
          db.status = NODE_TO_STATUS[n] => probe.result = n
  /\ probe.op = "get_game_resume_entry_point" /\ db.failed_at_status = "" =>
        \A n \in Steps(GAME_NODE_ORDER) :
          db.status = GAME_NODE_TO_STATUS[n] => probe.result = n

\* the GAME planner was asked about a job standing at the label of the last
\* step and answered that step
C37_Witness ==
  /\ probe.op = "get_game_resume_entry_point"
  /\ db.failed_at_status = ""
  /\ db.status = GAME_NODE_TO_STATUS["merge_game_videos"]
  /\ probe.result = "merge_game_videos"


\* the primary keys of the active rows of a type
ActiveOf(rows, asset_type) ==
  { pk \in DOMAIN rows : rows[pk].asset_type = asset_type /\ rows[pk].is_active }

\* what one save does to the table
SaveEffect ==
  probe'.rows # probe.rows \/ probe'.self # probe.self =>
    LET self == probe'.self
    IN /\ probe'.rows[self.pk] = [ asset_type |-> self.asset_type,
                                    is_active |-> self.is_active ]
       /\ \A pk \in DOMAIN probe.rows \ { self.pk } :
            IF self.is_active /\ probe.rows[pk].asset_type = self.asset_type
            THEN /\ ~probe'.rows[pk].is_active
                 /\ probe'.rows[pk].asset_type = probe.rows[pk].asset_type
            ELSE probe'.rows[pk] = probe.rows[pk]

\* C38 (single active asset per type): after any sequence of VideoAsset.save
\* calls made one after the other, at most one asset of each type is active;
\* a save of an active asset leaves every other asset of its type inactive
\* and every asset of another type as it was, and a save of an inactive
\* asset changes no other asset.
C38_SingleActiveAssetPerType ==
  /\ [](probe.op = "VideoAsset" =>
          \A asset_type \in AssetType :
            Cardinality(ActiveOf(probe.rows, asset_type)) <= 1)
  /\ [][probe.op = "VideoAsset" => SaveEffect]_vars

\* an active asset was saved while another asset of its type had been active,
\* beside an active asset of the other type; the saved one is now the active
\* asset of its type and the other type kept its own
C38_Witness ==
  /\ probe.op = "VideoAsset"
  /\ probe.self.pk = 1
  /\ probe.self.is_active
  /\ probe.self.asset_type = "sound_effect"
  /\ probe.rows[2] = [ asset_type |-> "sound_effect", is_active |-> FALSE ]
  /\ get_active_asset(probe.rows, "sound_effect") = 1
  /\ get_active_asset(probe.rows, "last_cta_image") = 3

====
